---- MODULE Spec2Model ----
(***************************************************************************)
(* A model of spii's Function (src/source/function.cpp): the variable and  *)
(* term registries, the global index assignment, the parallel evaluation   *)
(* and the stream format.  Indices are 0-based as in the source; a TLA+    *)
(* sequence s holds the element with source index i at s[i + 1].           *)
(***************************************************************************)
EXTENDS Integers, Sequences, FiniteSets, TLC

VARIABLES
    f,        \* the Function under construction (Function::Implementation)
    last,     \* the last call made on f and the error it raised ("" if none)
    toggle,   \* history of a set_constant(v, true); set_constant(v, false) pair
    calls,    \* the number of calls made so far, where a specification caps it
    pc,       \* "idle", or where the evaluate call in progress stands
    request,  \* what the evaluate call in progress computes
    x,        \* the point passed to the evaluate call in progress
    todo,     \* the iterations of the parallel loop no worker has started
    worker,   \* per worker thread: the iteration it is in, and where
    value,    \* per worker thread: its private copy of the reduction variable
    evaluation_errors,  \* per worker thread: the exception it caught, or ""
    writes,   \* per worker thread: the locations it wrote in the parallel loop
    log,      \* the iterations run in the call in progress, in the order of time
    out,      \* what the evaluate call handed back to its caller
    memory,   \* the caller's memory: the value of each cell
    stream,   \* what write_to_stream left in the stream, and its error
    g,        \* the Function read_from_stream built, user_space and the error
    results   \* the caller's SolverResults, and what exit_success last returned

registryVars == <<f, last, toggle, calls>>

callVars == <<pc, request, x, todo, worker, value, evaluation_errors, writes, log,
              out>>

streamVars == <<stream, g>>

vars == <<f, last, toggle, calls, pc, request, x, todo, worker, value,
          evaluation_errors, writes, log, out, memory, stream, g, results>>

-----------------------------------------------------------------------------
(* Bounds of the model.                                                    *)

NumAddresses == 2
MaxDimension == 2
MaxArity == 2
MaxTerms == 2
MaxThreads == 2
MaxCalls == 5
MaxCallsEval == 3
MaxCallsStream == 3

\* Calls of a run of SpecSerial.
MaxCallsSerial == 4
MaxConstant == 1
MaxPoints == 2

-----------------------------------------------------------------------------
(* The caller's side: storage addresses, transforms and terms.             *)

\* A double* of the caller: the number of the first cell of a block of
\* MaxDimension cells, so that the blocks of two addresses never overlap.
UserAddresses == { k * MaxDimension : k \in 0..(NumAddresses - 1) }

Dimensions == 1..MaxDimension

\* The null std::shared_ptr<ChangeOfVariables>.
nullptr == "nullptr"

\* The ChangeOfVariables objects of the caller: "cov_x_t" maps a block of t
\* solver scalars to a block of x user scalars.
ChangesOfVariables == {"cov_2_1", "cov_2_2"}

x_dimension(change_of_variables) == 2

t_dimension(change_of_variables) ==
    IF change_of_variables = "cov_2_1" THEN 1 ELSE 2

\* A Term is known to the engine by its arity and the dimension of each
\* argument: the term whose k-th argument has dimension d[k].
Terms == UNION { [1..n -> Dimensions] : n \in 1..MaxArity }

number_of_variables(term) == Len(term)

variable_dimension(term, var) == term[var + 1]

\* The argument lists a caller may pass to add_term.
ArgumentLists == UNION { [1..n -> UserAddresses] : n \in 1..MaxArity }

-----------------------------------------------------------------------------
(* Function::Implementation.                                               *)

\* What a call leaves behind: the object's state and the message of the
\* exception that left the call ("" when it returned).
Returned(F) == [F |-> F, error |-> ""]

Thrown(F, message) == [F |-> F, error |-> message]

\* variables.emplace_back(): a value-initialised AddedVariable.
ValueInitializedVariable ==
    [user_dimension |-> 0, solver_dimension |-> 0, user_data |-> 0,
     global_index |-> 0, is_constant |-> FALSE, change_of_variables |-> nullptr,
     temp_space |-> <<>>]

\* omp_get_max_threads(): the parallelism of the platform.
omp_get_max_threads == MaxThreads

\* The state Function::Function() and Implementation::clear() leave.
clear ==
    [constant |-> 0,
     terms |-> <<>>,
     variables |-> <<>>,
     variables_map |-> <<>>,
     number_of_scalars |-> 0,
     number_of_constants |-> 0,
     thread_gradient_scratch |-> <<>>,
     thread_gradient_storage |-> <<>>,
     local_storage_allocated |-> FALSE,
     number_of_hessian_elements |-> 0,
     number_of_threads |-> omp_get_max_threads,
     hessian_is_enabled |-> TRUE]

\* std::vector<double>::resize(n): the first elements kept, the new ones 0.
Resize(v, n) == [k \in 1..n |-> IF k <= Len(v) THEN v[k] ELSE 0]

\* std::map<double*, size_t>: a function from the registered addresses.
MapFind(F, variable) == variable \in DOMAIN F.variables_map

MapInsert(map, variable, index) ==
    [a \in (DOMAIN map) \cup {variable} |-> IF a = variable THEN index ELSE map[a]]

get_number_of_variables(F) == Len(F.variables)

get_number_of_scalars(F) == F.number_of_scalars

get_number_of_terms(F) == Len(F.terms)

\* The known branch without the comparison of the dimensions.
ReRegisterVariableUnchecked(F, variable, dimension, change_of_variables) ==
    Returned([F EXCEPT !.variables[F.variables_map[variable] + 1].change_of_variables =
                           change_of_variables])

\* The known branch taking the solver dimension of the transform it is given.
ReRegisterVariableResized(F, variable, dimension, change_of_variables) ==
    LET i == F.variables_map[variable] + 1
    IN  IF F.variables[i].user_dimension # dimension
        THEN Thrown(F, "dimension mismatch with previously added variable")
        ELSE Returned([F EXCEPT
                 !.variables[i].change_of_variables = change_of_variables,
                 !.variables[i].solver_dimension =
                     IF change_of_variables # nullptr
                     THEN t_dimension(change_of_variables) ELSE dimension])

ReRegisterVariable(F, variable, dimension, change_of_variables) ==
    LET i == F.variables_map[variable] + 1
        var_info == F.variables[i]
        assigned == [F EXCEPT !.variables[i].change_of_variables = change_of_variables]
    IN  IF var_info.user_dimension # dimension
        THEN Thrown(F, "dimension mismatch with previously added variable")
        ELSE IF change_of_variables # nullptr
                /\ var_info.user_dimension # x_dimension(change_of_variables)
        THEN Thrown(assigned, "x_dimension can not change")
        ELSE IF change_of_variables # nullptr
                /\ var_info.solver_dimension # t_dimension(change_of_variables)
        THEN Thrown(assigned, "t_dimension can not change")
        ELSE Returned(assigned)

RegisterNewVariable(F, variable, dimension, change_of_variables) ==
    LET index == Len(F.variables)
        appended == [ValueInitializedVariable EXCEPT
                        !.user_data = variable,
                        !.is_constant = FALSE,
                        !.change_of_variables = change_of_variables]
        F1 == [F EXCEPT !.variables = Append(@, appended),
                        !.variables_map = MapInsert(@, variable, index)]
        user == IF change_of_variables # nullptr
                THEN x_dimension(change_of_variables) ELSE dimension
        solver == IF change_of_variables # nullptr
                  THEN t_dimension(change_of_variables) ELSE dimension
    IN  IF change_of_variables # nullptr
           /\ dimension # x_dimension(change_of_variables)
        THEN Thrown(F1, "dimension does not match the change of variables")
        ELSE Returned([F1 EXCEPT
                 !.variables[index + 1].user_dimension = user,
                 !.variables[index + 1].solver_dimension = solver,
                 !.variables[index + 1].temp_space = Resize(@, user),
                 !.variables[index + 1].global_index = F.number_of_scalars,
                 !.number_of_scalars = @ + solver])

\* add_variable_internal without its first statement.
add_variable_internal_unmarked(F, variable, dimension, change_of_variables) ==
    IF MapFind(F, variable)
    THEN ReRegisterVariable(F, variable, dimension, change_of_variables)
    ELSE RegisterNewVariable(F, variable, dimension, change_of_variables)

add_variable_internal(F, variable, dimension, change_of_variables) ==
    LET F0 == [F EXCEPT !.local_storage_allocated = FALSE]
    IN  IF MapFind(F0, variable)
        THEN ReRegisterVariable(F0, variable, dimension, change_of_variables)
        ELSE RegisterNewVariable(F0, variable, dimension, change_of_variables)

add_variable(F, variable, dimension) ==
    add_variable_internal(F, variable, dimension, nullptr)

\* The two loops of set_constant over `variables`, as folds from the left:
\* Reindex(vs, k, wanted, next) gives the variables from position k on whose
\* is_constant flag is `wanted` the indices next, next + solver_dimension, ...
\* The loop without `+= variable.solver_dimension`.
RECURSIVE ReindexWithoutAdvance(_, _, _, _)
ReindexWithoutAdvance(vs, k, wanted, next) ==
    IF k > Len(vs) THEN [variables |-> vs, count |-> next]
    ELSE IF vs[k].is_constant = wanted
    THEN ReindexWithoutAdvance([vs EXCEPT ![k].global_index = next], k + 1, wanted,
                               next)
    ELSE ReindexWithoutAdvance(vs, k + 1, wanted, next)

RECURSIVE Reindex(_, _, _, _)
Reindex(vs, k, wanted, next) ==
    IF k > Len(vs) THEN [variables |-> vs, count |-> next]
    ELSE IF vs[k].is_constant = wanted
    THEN Reindex([vs EXCEPT ![k].global_index = next], k + 1, wanted,
                 next + vs[k].solver_dimension)
    ELSE Reindex(vs, k + 1, wanted, next)

\* spii's check(condition, message): throws the message when the condition
\* does not hold.
check(F, condition, message) ==
    IF condition THEN Returned(F) ELSE Thrown(F, message)

\* A const method: `index` is what it returns when it does not throw.
get_variable_global_index(F, variable) ==
    LET found == check(F, MapFind(F, variable), "variable not found")
    IN  [F |-> found.F,
         error |-> found.error,
         index |-> IF found.error = ""
                   THEN F.variables[F.variables_map[variable] + 1].global_index
                   ELSE 0]

\* set_constant marking the local storage stale before it looks the address up.
set_constant_marking_first(F, variable, is_constant) ==
    LET marked == [F EXCEPT !.local_storage_allocated = FALSE]
    IN  IF ~MapFind(F, variable)
        THEN Thrown(marked, "variable not found")
        ELSE LET i == F.variables_map[variable] + 1
                 flagged == [F.variables EXCEPT ![i].is_constant = is_constant]
                 free == Reindex(flagged, 1, FALSE, 0)
                 const == Reindex(free.variables, 1, TRUE, free.count)
             IN  Returned([marked EXCEPT
                     !.variables = const.variables,
                     !.number_of_scalars = free.count,
                     !.number_of_constants = const.count - free.count])

set_constant(F, variable, is_constant) ==
    IF ~MapFind(F, variable)
    THEN Thrown(F, "variable not found")
    ELSE LET i == F.variables_map[variable] + 1
             flagged == [F.variables EXCEPT ![i].is_constant = is_constant]
             free == Reindex(flagged, 1, FALSE, 0)
             const == Reindex(free.variables, 1, TRUE, free.count)
         IN  Returned([F EXCEPT
                 !.variables = const.variables,
                 !.number_of_scalars = free.count,
                 !.number_of_constants = const.count - free.count,
                 !.local_storage_allocated = FALSE])

\* The body of the try block of add_term: the loop over the arguments from
\* `var` on, on the function F whose last term is the one being bound.
RECURSIVE BindArguments(_, _, _, _)
BindArguments(F, term, arguments, var) ==
    IF var >= number_of_variables(term) THEN Returned(F)
    ELSE LET address == arguments[var + 1]
             known == MapFind(F, address)
             added == IF known THEN Returned(F)
                      ELSE add_variable(F, address, variable_dimension(term, var))
             F1 == added.F
             var_index == F1.variables_map[address]
         IN  IF added.error # "" THEN added
             ELSE IF known /\ F.variables[F.variables_map[address] + 1].user_dimension
                               # variable_dimension(term, var)
             THEN Thrown(F, "variable dimension does not match term")
             ELSE BindArguments(
                     [F1 EXCEPT !.terms[Len(F1.terms)].added_variables_indices =
                                     Append(@, var_index)],
                     term, arguments, var + 1)

\* add_term whose catch block rethrows without terms.pop_back().
add_term_keeping_failed(F, term, arguments) ==
    LET F0 == [F EXCEPT !.local_storage_allocated = FALSE]
        F1 == [F0 EXCEPT !.terms = Append(@,
                   [term |-> term, added_variables_indices |-> <<>>,
                    temp_variables |-> <<>>, hessian |-> <<>>])]
        bound == BindArguments(F1, term, arguments, 0)
    IN  IF number_of_variables(term) # Len(arguments)
        THEN Thrown(F0, "incorrect number of arguments")
        ELSE bound

\* add_term that rejects too few arguments only.
add_term_accepting_more(F, term, arguments) ==
    LET F0 == [F EXCEPT !.local_storage_allocated = FALSE]
        F1 == [F0 EXCEPT !.terms = Append(@,
                   [term |-> term, added_variables_indices |-> <<>>,
                    temp_variables |-> <<>>, hessian |-> <<>>])]
        bound == BindArguments(F1, term, arguments, 0)
    IN  IF number_of_variables(term) > Len(arguments)
        THEN Thrown(F0, "incorrect number of arguments")
        ELSE IF bound.error # ""
        THEN Thrown([bound.F EXCEPT !.terms = SubSeq(@, 1, Len(@) - 1)], bound.error)
        ELSE bound

add_term(F, term, arguments) ==
    LET F0 == [F EXCEPT !.local_storage_allocated = FALSE]
        F1 == [F0 EXCEPT !.terms = Append(@,
                   [term |-> term, added_variables_indices |-> <<>>,
                    temp_variables |-> <<>>, hessian |-> <<>>])]
        bound == BindArguments(F1, term, arguments, 0)
    IN  IF number_of_variables(term) # Len(arguments)
        THEN Thrown(F0, "incorrect number of arguments")
        ELSE IF bound.error # ""
        THEN Thrown([bound.F EXCEPT !.terms = SubSeq(@, 1, Len(@) - 1)], bound.error)
        ELSE bound

-----------------------------------------------------------------------------
(* The collaborators of the engine.  A Term and a ChangeOfVariables are    *)
(* objects of the caller; the engine only calls them.  The model gives     *)
(* them integer arithmetic: the term with arguments a computes S * S for   *)
(* S the sum of Weight(var, i) * a[var][i].                                *)

RECURSIVE SumSeq(_)
SumSeq(s) == IF Len(s) = 0 THEN 0 ELSE s[1] + SumSeq(Tail(s))

Zeros(n) == [k \in 1..n |-> 0]

Max(S) == CHOOSE m \in S : \A e \in S : e <= m

Weight(var, i) == var + i + 1

TermSum(term, args) ==
    SumSeq([var \in 1..Len(term) |->
        SumSeq([i \in 1..term[var] |-> Weight(var - 1, i - 1) * args[var][i]])])

\* Term::evaluate(variables)
TermValue(term, args) == TermSum(term, args) * TermSum(term, args)

\* The point outside the domain of every term: a term whose first argument
\* starts with this coordinate throws instead of returning.
ThrowAt == 2

\* The message of the exception Term::evaluate throws at these arguments, or
\* "" when it returns; terms of different classes throw different ones.
TermError(term, args) ==
    IF args[1][1] # ThrowAt THEN ""
    ELSE IF number_of_variables(term) = 1 THEN "unary term: domain error"
    ELSE "term: domain error"

\* The rows Term::evaluate(variables, gradient) stores in *gradient.
TermGradient(term, args) ==
    [var \in 1..Len(term) |->
        [i \in 1..term[var] |-> 2 * TermSum(term, args) * Weight(var - 1, i - 1)]]

\* The blocks Term::evaluate(variables, gradient, hessian) stores in *hessian.
TermHessian(term, args) ==
    [var0 \in 1..Len(term) |-> [var1 \in 1..Len(term) |->
        [i \in 1..term[var0] |-> [j \in 1..term[var1] |->
            2 * Weight(var0 - 1, i - 1) * Weight(var1 - 1, j - 1)]]]]

\* ChangeOfVariables::t_to_x(x, t): "cov_2_1" maps (t0) to (t0, 2 t0) and
\* "cov_2_2" maps (t0, t1) to (t0, t0 + t1).
t_to_x(change_of_variables, t) ==
    IF change_of_variables = "cov_2_1"
    THEN <<t[1], 2 * t[1]>>
    ELSE <<t[1], t[1] + t[2]>>

\* ChangeOfVariables::update_gradient(gradient, t, x_gradient): what it adds
\* to each of the t_dimension() entries of gradient.
update_gradient(change_of_variables, t, x_gradient) ==
    IF change_of_variables = "cov_2_1"
    THEN <<x_gradient[1] + 2 * x_gradient[2]>>
    ELSE <<x_gradient[1] + x_gradient[2], x_gradient[2]>>

-----------------------------------------------------------------------------
(* Local storage.                                                          *)

\* Eigen's resize(n): the coefficients are kept when the size is unchanged.
\* Otherwise they are uninitialised; the engine writes each of them before it
\* reads it (setZero for an accumulator, Term::evaluate for a scratch row and
\* a Hessian block), and the model holds 0 until then.
EigenResize(v, n) == IF Len(v) = n THEN v ELSE Zeros(n)

MatrixResize(m, rows, cols) ==
    IF Len(m) = rows /\ (rows = 0 \/ Len(m[1]) = cols) THEN m
    ELSE [i \in 1..rows |-> Zeros(cols)]

ElementOrEmpty(s, k) == IF k <= Len(s) THEN s[k] ELSE <<>>

AllocateTerm(F, added_term) ==
    LET n == number_of_variables(added_term.term)
        pointers == added_term.temp_variables \o added_term.added_variables_indices
        blocks == [var0 \in 1..n |-> [var1 \in 1..n |->
                      MatrixResize(
                          ElementOrEmpty(ElementOrEmpty(added_term.hessian, var0), var1),
                          variable_dimension(added_term.term, var0 - 1),
                          variable_dimension(added_term.term, var1 - 1))]]
    IN  [added_term EXCEPT
            !.temp_variables = pointers,
            !.hessian = IF F.hessian_is_enabled THEN blocks ELSE @]

allocate_local_storage(F) ==
    LET max_variable_dimension ==
            Max({1} \cup { F.variables[k].user_dimension : k \in 1..Len(F.variables) })
        max_arity ==
            Max({1} \cup { Len(F.terms[k].added_variables_indices) : k \in 1..Len(F.terms) })
        scratch == [t \in 1..F.number_of_threads |-> [var \in 1..max_arity |->
                       EigenResize(
                           ElementOrEmpty(ElementOrEmpty(F.thread_gradient_scratch, t), var),
                           max_variable_dimension)]]
        storage == [t \in 1..F.number_of_threads |->
                       EigenResize(ElementOrEmpty(F.thread_gradient_storage, t),
                                   F.number_of_scalars + F.number_of_constants)]
    IN  [F EXCEPT
            !.thread_gradient_scratch = scratch,
            !.thread_gradient_storage = storage,
            !.terms = [k \in 1..Len(F.terms) |-> AllocateTerm(F, F.terms[k])],
            !.local_storage_allocated = TRUE]

set_number_of_threads(F, num) ==
    IF num <= 0 THEN Thrown(F, "invalid number of threads")
    ELSE Returned([F EXCEPT !.local_storage_allocated = FALSE,
                            !.number_of_threads = num])

-----------------------------------------------------------------------------
(* Evaluation.  A read or a write outside a vector is undefined behaviour  *)
(* (Eigen's index assertion, where the build keeps it, ends the process):  *)
(* an operator reports it as defined = FALSE and the call in which it      *)
(* happens ends in pc = "undefined".                                       *)

Slice(v, first, n) == [k \in 1..n |-> v[first + k]]

\* The scratch buffer of one variable after copy_global_to_local.
LocalCopy(var, x0, mem) ==
    IF var.is_constant
    THEN [k \in 1..var.user_dimension |-> mem[var.user_data + k - 1]]
    ELSE IF var.change_of_variables = nullptr
    THEN Slice(x0, var.global_index, var.user_dimension)
    ELSE t_to_x(var.change_of_variables,
                Slice(x0, var.global_index, t_dimension(var.change_of_variables)))

\* Whether copy_global_to_local stays inside x and inside the scratch buffer.
LocalCopyDefined(var, x0) ==
    \/ var.is_constant
    \/ /\ var.change_of_variables = nullptr
       /\ var.global_index + var.user_dimension <= Len(x0)
    \/ /\ var.change_of_variables # nullptr
       /\ var.global_index + t_dimension(var.change_of_variables) <= Len(x0)
       /\ x_dimension(var.change_of_variables) = Len(var.temp_space)

copy_global_to_local(F, x0, mem) ==
    [defined |-> \A k \in 1..Len(F.variables) : LocalCopyDefined(F.variables[k], x0),
     F |-> [F EXCEPT !.variables = [k \in 1..Len(F.variables) |->
                [F.variables[k] EXCEPT !.temp_space =
                    IF LocalCopyDefined(F.variables[k], x0)
                    THEN LocalCopy(F.variables[k], x0, mem) ELSE @]]]]

\* An engine in which every worker shares the accumulator, or the scratch
\* rows, of thread 0.
AccumulatorOfThreadZero(t) == 0

ScratchOfThreadZero(t) == 0

\* The accumulator and the scratch rows worker t uses: those at index
\* t = omp_get_thread_num().
AccumulatorOf(t) == t

ScratchOf(t) == t

\* The arguments terms[i].term sees: what terms[i].temp_variables point to.
TermArguments(F, i) ==
    LET added_term == F.terms[i + 1]
    IN  [var \in 1..number_of_variables(added_term.term) |->
            F.variables[added_term.temp_variables[var] + 1].temp_space]

\* What the call in progress computes: "user" is evaluate(), "value" is
\* evaluate(x), the others are evaluate(x, gradient[, hessian]) with no
\* Hessian, a dense one and a sparse one.
WithGradient(rq) == rq \in {"gradient", "dense", "sparse"}

WithHessian(rq) == rq \in {"dense", "sparse"}

\* value += terms[i].term->evaluate(...) in worker t: the term's value, the
\* message of the exception if it throws, and the engine after the term has
\* stored its gradient rows in the scratch of t and its Hessian blocks in
\* terms[i].hessian, where the call asks for them.
EvaluateTerm(F, t, i, rq) ==
    LET term == F.terms[i + 1].term
        args == TermArguments(F, i)
        rows == TermGradient(term, args)
        s == ScratchOf(t) + 1
    IN  IF TermError(term, args) # ""
        THEN [value |-> 0, error |-> TermError(term, args), F |-> F]
        ELSE [value |-> TermValue(term, args),
              error |-> "",
              F |-> [F EXCEPT
                 !.thread_gradient_scratch =
                    IF ~WithGradient(rq) THEN @
                    ELSE [@ EXCEPT ![s] =
                        [var \in 1..Len(@) |->
                            IF var <= Len(rows)
                            THEN [k \in 1..Len(@[var]) |->
                                     IF k <= Len(rows[var]) THEN rows[var][k] ELSE @[var][k]]
                            ELSE @[var]]],
                 !.terms[i + 1].hessian =
                    IF WithHessian(rq) THEN TermHessian(term, args) ELSE @]]

AddAt(v, first, d) ==
    [k \in 1..Len(v) |->
        IF k > first /\ k <= first + Len(d) THEN v[k] + d[k - first] ELSE v[k]]

\* A location of the memory the workers share, for the record of who wrote
\* what: an array of the engine, who owns it (a worker or a term) and where.
Location(object, owner, index) ==
    [object |-> object, owner |-> owner, index |-> index]

\* "Put the gradient from the term into the thread's global gradient": the
\* loop over the arguments of terms[i] from `var` on, in worker t. `written`
\* collects the coefficients of the accumulator the loop has added to.
RECURSIVE PutGradient(_, _, _, _, _, _, _)
PutGradient(F, x0, rq, t, i, var, written) ==
    LET indices == F.terms[i + 1].added_variables_indices
        v == F.variables[indices[var + 1] + 1]
        a == AccumulatorOf(t) + 1
        row == F.thread_gradient_scratch[ScratchOf(t) + 1][var + 1]
        global_offset == v.global_index
        accumulator == F.thread_gradient_storage[a]
        t_dim == t_dimension(v.change_of_variables)
        Cells(n) == { Location("thread_gradient_storage", a - 1, <<global_offset + k>>) :
                        k \in 0..(n - 1) }
        Stop(message, defined) ==
            [F |-> F, error |-> message, defined |-> defined, written |-> written]
    IN  IF var >= Len(indices) THEN Stop("", TRUE)
        ELSE IF v.is_constant THEN PutGradient(F, x0, rq, t, i, var + 1, written)
        ELSE IF rq = "sparse" /\ v.change_of_variables # nullptr
        THEN Stop("Change of variables not supported for sparse Hessian", TRUE)
        ELSE IF rq = "sparse" \/ v.change_of_variables = nullptr
        THEN IF global_offset + v.user_dimension > Len(accumulator)
                \/ v.user_dimension > Len(row)
             THEN Stop("", FALSE)
             ELSE PutGradient(
                     [F EXCEPT !.thread_gradient_storage[a] =
                         AddAt(@, global_offset, Slice(row, 0, v.user_dimension))],
                     x0, rq, t, i, var + 1, written \cup Cells(v.user_dimension))
        ELSE IF global_offset >= F.number_of_scalars
        THEN PutGradient(F, x0, rq, t, i, var + 1, written)
        ELSE IF global_offset + t_dim > Len(accumulator)
                \/ global_offset + t_dim > Len(x0)
                \/ x_dimension(v.change_of_variables) > Len(row)
        THEN Stop("", FALSE)
        ELSE PutGradient(
                [F EXCEPT !.thread_gradient_storage[a] =
                    AddAt(@, global_offset,
                          update_gradient(v.change_of_variables,
                              Slice(x0, global_offset, t_dim),
                              Slice(row, 0, x_dimension(v.change_of_variables))))],
                x0, rq, t, i, var + 1, written \cup Cells(t_dim))

\* "Sum the gradients from all different terms": the caller's gradient after
\* gradient->resize(number_of_scalars), setZero() and the loop over threads.
SumThreadGradients(F) ==
    [k \in 1..F.number_of_scalars |->
        SumSeq([t \in 1..F.number_of_threads |-> F.thread_gradient_storage[t][k]])]

RECURSIVE Flatten(_)
Flatten(ss) == IF Len(ss) = 0 THEN <<>> ELSE ss[1] \o Flatten(Tail(ss))

IsConstantArgument(F, added_term, var) ==
    F.variables[added_term.added_variables_indices[var + 1] + 1].is_constant

ArgumentOffset(F, added_term, var) ==
    F.variables[added_term.added_variables_indices[var + 1] + 1].global_index

\* part_hessian(i, j) for the block of the arguments var0 and var1.
PartHessian(added_term, var0, var1, i, j) ==
    added_term.hessian[var0 + 1][var1 + 1][i + 1][j + 1]

\* "Collect the gradients and hessians from each term": hessian_indices after
\* the loops of the sparse evaluate, one triplet per coefficient of every
\* block of two arguments that are not constant, in the order of the loops.
HessianTriplets(F) ==
    Flatten([k \in 1..Len(F.terms) |->
        LET added_term == F.terms[k]
            term == added_term.term
            n == number_of_variables(term)
        IN  Flatten([v0 \in 1..n |->
                IF IsConstantArgument(F, added_term, v0 - 1) THEN <<>>
                ELSE Flatten([v1 \in 1..n |->
                    IF IsConstantArgument(F, added_term, v1 - 1) THEN <<>>
                    ELSE Flatten([i \in 1..variable_dimension(term, v0 - 1) |->
                            [j \in 1..variable_dimension(term, v1 - 1) |->
                                [row |-> i - 1 + ArgumentOffset(F, added_term, v0 - 1),
                                 col |-> j - 1 + ArgumentOffset(F, added_term, v1 - 1),
                                 value |-> PartHessian(added_term, v0 - 1, v1 - 1,
                                                       i - 1, j - 1)]]])])])])

\* The walk of create_sparse_hessian without the tests of is_constant.
UnitTripletsOfAllArguments(F) ==
    Flatten([k \in 1..Len(F.terms) |->
        LET indices == F.terms[k].added_variables_indices
            term == F.terms[k].term
        IN  Flatten([var0 \in 1..number_of_variables(term) |->
                Flatten([var1 \in 1..number_of_variables(term) |->
                    Flatten([i \in 1..variable_dimension(term, var0 - 1) |->
                        [j \in 1..variable_dimension(term, var1 - 1) |->
                            [row |-> i - 1 + F.variables[indices[var0] + 1].global_index,
                             col |-> j - 1 + F.variables[indices[var1] + 1].global_index,
                             value |-> 1]]])])])])

\* hessian_indices after the loops of create_sparse_hessian: a triplet of
\* value 1.0 for every pair of scalars of every pair of arguments that are
\* not constant, in the order of the loops.
UnitTriplets(F) ==
    Flatten([k \in 1..Len(F.terms) |->
        LET indices == F.terms[k].added_variables_indices
            term == F.terms[k].term
        IN  Flatten([var0 \in 1..number_of_variables(term) |->
                IF F.variables[indices[var0] + 1].is_constant THEN <<>>
                ELSE Flatten([var1 \in 1..number_of_variables(term) |->
                    IF F.variables[indices[var1] + 1].is_constant THEN <<>>
                    ELSE Flatten([i \in 1..variable_dimension(term, var0 - 1) |->
                        [j \in 1..variable_dimension(term, var1 - 1) |->
                            [row |-> i - 1 + F.variables[indices[var0] + 1].global_index,
                             col |-> j - 1 + F.variables[indices[var1] + 1].global_index,
                             value |-> 1]]])])])])

\* A rows x cols matrix is a function on the pairs <<row, col>>.
ZeroMatrix(rows, cols) ==
    [rc \in (0..(rows - 1)) \X (0..(cols - 1)) |-> 0]

\* A setFromTriplets that keeps the last coefficient of equal coordinates.
setFromTripletsKeepLast(rows, cols, triplets) ==
    [defined |-> \A k \in 1..Len(triplets) :
                    triplets[k].row < rows /\ triplets[k].col < cols,
     matrix |-> [rc \in (0..(rows - 1)) \X (0..(cols - 1)) |->
                    SumSeq([k \in 1..Len(triplets) |->
                        IF /\ <<triplets[k].row, triplets[k].col>> = rc
                           /\ \A l \in (k + 1)..Len(triplets) :
                                  <<triplets[l].row, triplets[l].col>> # rc
                        THEN triplets[k].value ELSE 0])]]

\* Eigen's setFromTriplets on a matrix of the given shape: the coefficients
\* of equal coordinates are summed. A triplet outside the shape is undefined.
setFromTriplets(rows, cols, triplets) ==
    [defined |-> \A k \in 1..Len(triplets) :
                    triplets[k].row < rows /\ triplets[k].col < cols,
     matrix |-> [rc \in (0..(rows - 1)) \X (0..(cols - 1)) |->
                    SumSeq([k \in 1..Len(triplets) |->
                        IF <<triplets[k].row, triplets[k].col>> = rc
                        THEN triplets[k].value ELSE 0])]]

\* create_sparse_hessian(H): H resized to the free scalars and set from the
\* triplets, whose number the function records; a const method that throws
\* nothing.
create_sparse_hessian(F) ==
    LET hessian_indices == UnitTriplets(F)
        n == F.number_of_scalars
        H == setFromTriplets(n, n, hessian_indices)
    IN  [F |-> [F EXCEPT !.number_of_hessian_elements = Len(hessian_indices)],
         error |-> "",
         hessian_indices |-> hessian_indices,
         H |-> H.matrix,
         defined |-> H.defined]

\* "Create the global (dense) hessian": the loops over the terms from term k
\* and its argument var0 on, adding to the matrix H.
RECURSIVE DenseHessian(_, _, _, _)
DenseHessian(F, H, k, var0) ==
    LET added_term == F.terms[k + 1]
        term == added_term.term
        n == number_of_variables(term)
        v0 == F.variables[added_term.added_variables_indices[var0 + 1] + 1]
        free == { var1 \in 0..(n - 1) : ~IsConstantArgument(F, added_term, var1) }
        From(var1, rc) ==
            LET i == rc[1] - v0.global_index
                j == rc[2] - ArgumentOffset(F, added_term, var1)
            IN  IF /\ var1 \in free
                   /\ i \in 0..(variable_dimension(term, var0) - 1)
                   /\ j \in 0..(variable_dimension(term, var1) - 1)
                THEN PartHessian(added_term, var0, var1, i, j) ELSE 0
        inside == /\ v0.global_index + variable_dimension(term, var0)
                        <= F.number_of_scalars
                  /\ \A var1 \in free :
                        ArgumentOffset(F, added_term, var1)
                            + variable_dimension(term, var1) <= F.number_of_scalars
    IN  IF k >= Len(F.terms) THEN [matrix |-> H, error |-> "", defined |-> TRUE]
        ELSE IF var0 >= n THEN DenseHessian(F, H, k + 1, 0)
        ELSE IF v0.is_constant THEN DenseHessian(F, H, k, var0 + 1)
        ELSE IF v0.change_of_variables # nullptr
        THEN [matrix |-> H, defined |-> TRUE,
              error |-> "Change of variables not supported for Hessians"]
        ELSE IF free # {} /\ ~inside
        THEN [matrix |-> H, error |-> "", defined |-> FALSE]
        ELSE DenseHessian(F,
                [rc \in DOMAIN H |->
                    H[rc] + SumSeq([v1 \in 1..n |-> From(v1 - 1, rc)])],
                k, var0 + 1)

\* copy_user_to_local(): "both variables and constants are copied here".
copy_user_to_local(F, mem) ==
    [F EXCEPT !.variables = [k \in 1..Len(F.variables) |->
        [F.variables[k] EXCEPT !.temp_space =
            [i \in 1..Len(@) |->
                IF i <= F.variables[k].user_dimension
                THEN mem[F.variables[k].user_data + i - 1] ELSE @[i]]]]]

\* The beginning of an evaluate call allocating before it checks.
BeginEvaluateAllocatingFirst(F, x0, rq, mem) ==
    LET allocated == IF F.local_storage_allocated THEN F ELSE allocate_local_storage(F)
        copied == IF rq = "user"
                  THEN [defined |-> TRUE, F |-> copy_user_to_local(allocated, mem)]
                  ELSE copy_global_to_local(allocated, x0, mem)
        zeroed == [copied.F EXCEPT
                      !.thread_gradient_storage =
                          [t \in 1..Len(@) |-> Zeros(Len(@[t]))],
                      !.number_of_hessian_elements = IF rq = "sparse" THEN 0 ELSE @]
    IN  IF WithHessian(rq) /\ ~F.hessian_is_enabled
        THEN [F |-> allocated, defined |-> TRUE,
              error |-> "Hessian computation is not enabled"]
        ELSE IF ~copied.defined
        THEN [F |-> copied.F, defined |-> FALSE, error |-> ""]
        ELSE IF ~WithGradient(rq)
        THEN [F |-> copied.F, defined |-> TRUE, error |-> ""]
        ELSE [F |-> zeroed, defined |-> TRUE, error |-> ""]

\* The part of an evaluate call before the parallel loop: the check of
\* hessian_is_enabled, the allocation of local storage when it is stale, the
\* copy into the variables' temp_space and, with a gradient, setZero of every
\* accumulator.
BeginEvaluate(F, x0, rq, mem) ==
    LET allocated == IF F.local_storage_allocated THEN F ELSE allocate_local_storage(F)
        copied == IF rq = "user"
                  THEN [defined |-> TRUE, F |-> copy_user_to_local(allocated, mem)]
                  ELSE copy_global_to_local(allocated, x0, mem)
        zeroed == [copied.F EXCEPT
                      !.thread_gradient_storage =
                          [t \in 1..Len(@) |-> Zeros(Len(@[t]))],
                      !.number_of_hessian_elements = IF rq = "sparse" THEN 0 ELSE @]
    IN  IF WithHessian(rq) /\ ~F.hessian_is_enabled
        THEN [F |-> F, defined |-> TRUE, error |-> "Hessian computation is not enabled"]
        ELSE IF ~copied.defined
        THEN [F |-> copied.F, defined |-> FALSE, error |-> ""]
        ELSE IF ~WithGradient(rq)
        THEN [F |-> copied.F, defined |-> TRUE, error |-> ""]
        ELSE [F |-> zeroed, defined |-> TRUE, error |-> ""]

\* What the caller holds after a call: the value returned (the lower bound
\* and `upper` for an Interval), *gradient and *hessian, and the message of
\* the exception that left the call, if any. `references` are the positions
\* of the caller's interval vector handed to the terms.
NoOutput ==
    [value |-> 0, upper |-> 0, gradient |-> <<>>, hessian |-> <<>>, error |-> "",
     references |-> <<>>]

\* "Now that we are outside the OpenMP block, we can rethrow exceptions": the
\* first slot, in the order of the threads, that holds one.
NoError(errors) == ""

FirstError(errors) ==
    IF \A t \in 1..Len(errors) : errors[t] = "" THEN ""
    ELSE errors[CHOOSE t \in 1..Len(errors) :
                    errors[t] # "" /\ \A u \in 1..(t - 1) : errors[u] = ""]

\* The part of an evaluate call after the parallel loop, given the private
\* copy of `value` and the error slot of every thread.
EndEvaluate(F, rq, privates, errors) ==
    LET n == F.number_of_scalars
        total == F.constant + SumSeq(privates)
        gradient == SumThreadGradients(F)
        dense == DenseHessian(F, ZeroMatrix(n, n), 0, 0)
        triplets == HessianTriplets(F)
        sparse == setFromTriplets(n, n, triplets)
        Result(G, o, defined) == [F |-> G, out |-> o, defined |-> defined]
    IN  IF FirstError(errors) # ""
        THEN Result(F, [NoOutput EXCEPT !.error = FirstError(errors)], TRUE)
        ELSE IF ~WithGradient(rq)
        THEN Result(F, [NoOutput EXCEPT !.value = total], TRUE)
        ELSE IF rq = "gradient"
        THEN Result(F, [NoOutput EXCEPT !.value = total, !.gradient = gradient], TRUE)
        ELSE IF rq = "dense"
        THEN IF dense.error # ""
             THEN Result(F, [NoOutput EXCEPT !.gradient = gradient,
                                             !.hessian = dense.matrix,
                                             !.error = dense.error], dense.defined)
             ELSE Result(F, [NoOutput EXCEPT !.value = total,
                                             !.gradient = gradient,
                                             !.hessian = dense.matrix], dense.defined)
        ELSE Result([F EXCEPT !.number_of_hessian_elements = Len(triplets)],
                    [NoOutput EXCEPT !.value = total,
                                     !.gradient = gradient,
                                     !.hessian = sparse.matrix], sparse.defined)

\* The loop over the terms when a single thread runs every iteration, in
\* the order of the loop, from iteration i on: the build without OpenMP, and
\* num_threads(1). `run` holds the value, the exception caught and whether
\* every access so far was inside its vector.
RECURSIVE RunTerms(_, _, _, _, _)
RunTerms(F, x0, rq, i, run) ==
    LET evaluated == EvaluateTerm(F, 0, i, rq)
        put == PutGradient(evaluated.F, x0, rq, 0, i, 0, {})
    IN  IF i >= Len(F.terms) THEN [run EXCEPT !.F = F]
        ELSE IF evaluated.error # ""
        THEN RunTerms(F, x0, rq, i + 1, [run EXCEPT !.error = evaluated.error])
        ELSE IF ~WithGradient(rq)
        THEN RunTerms(F, x0, rq, i + 1, [run EXCEPT !.value = @ + evaluated.value])
        ELSE IF ~put.defined THEN [run EXCEPT !.F = put.F, !.defined = FALSE]
        ELSE RunTerms(put.F, x0, rq, i + 1,
                      [run EXCEPT !.value = @ + evaluated.value,
                                  !.error = IF put.error # "" THEN put.error ELSE @])

\* &terms[i].hessian, which the term fills block by block, holds the blocks
\* allocate_local_storage makes when Hessians are enabled.
HessianAllocated(F) ==
    \A k \in 1..Len(F.terms) :
        Len(F.terms[k].hessian) = number_of_variables(F.terms[k].term)

\* An evaluate call in which thread 0 runs every iteration of the loop.
ThreadZeroRuns(F, x0, rq, mem) ==
    LET begun == BeginEvaluate(F, x0, rq, mem)
        run == RunTerms(begun.F, x0, rq, 0,
                        [F |-> begun.F, value |-> 0, error |-> "", defined |-> TRUE])
        ended == EndEvaluate(run.F, rq,
                             [t \in 1..F.number_of_threads |->
                                 IF t = 1 THEN run.value ELSE 0],
                             [t \in 1..F.number_of_threads |->
                                 IF t = 1 THEN run.error ELSE ""])
    IN  IF begun.error # ""
        THEN [out |-> [NoOutput EXCEPT !.error = begun.error], defined |-> TRUE,
              F |-> begun.F]
        ELSE IF ~begun.defined \/ ~run.defined
                \/ (WithHessian(rq) /\ ~HessianAllocated(begun.F))
        THEN [out |-> NoOutput, defined |-> FALSE, F |-> run.F]
        ELSE [out |-> ended.out, defined |-> ended.defined, F |-> ended.F]

\* evaluate(x, gradient, hessian) after set_number_of_threads(1).
SingleWorker(F, x0, rq, mem) ==
    ThreadZeroRuns(set_number_of_threads(F, 1).F, x0, rq, mem)

-----------------------------------------------------------------------------
(* The stream format.  A stream is the sequence of the tokens operator<<   *)
(* wrote, which operator>> reads back one at a time.                       *)

\* Function::operator+=(double)
AddConstantValue(F, constant_value) == [F EXCEPT !.constant = @ + constant_value]

\* ChangeOfVariables::x_to_t(t, x), the inverse of t_to_x.
x_to_t(change_of_variables, xs) ==
    IF change_of_variables = "cov_2_1"
    THEN <<xs[1]>>
    ELSE <<xs[1], xs[2] - xs[1]>>

\* copy_user_to_global(&x): x after resize(number_of_scalars) and the copy of
\* every free variable from the caller's memory. A coefficient no variable
\* covers is left as resize made it; the model holds 0 there.
copy_user_to_global(F, mem) ==
    LET n == F.number_of_scalars
        Block(var) ==
            IF var.change_of_variables = nullptr
            THEN [k \in 1..var.user_dimension |-> mem[var.user_data + k - 1]]
            ELSE x_to_t(var.change_of_variables,
                        [k \in 1..var.user_dimension |-> mem[var.user_data + k - 1]])
        Covers(var, k) ==
            ~var.is_constant /\ k > var.global_index
                /\ k <= var.global_index + Len(Block(var))
        Last(k) == Max({ v \in 1..Len(F.variables) : Covers(F.variables[v], k) })
        \* x_to_t reads x_dimension() values of data and writes t_dimension()
        \* values of x.
        Reads(var) ==
            var.change_of_variables = nullptr
                \/ x_dimension(var.change_of_variables) = var.user_dimension
        defined == \A v \in 1..Len(F.variables) :
                       F.variables[v].is_constant
                           \/ /\ Reads(F.variables[v])
                              /\ F.variables[v].global_index
                                     + Len(Block(F.variables[v])) <= n
        readable == \A v \in 1..Len(F.variables) :
                        F.variables[v].is_constant \/ Reads(F.variables[v])
    IN  [defined |-> defined,
         x |-> IF ~readable THEN Zeros(n)
               ELSE [k \in 1..n |->
                   IF \E v \in 1..Len(F.variables) : Covers(F.variables[v], k)
                   THEN Block(F.variables[Last(k)])[k - F.variables[Last(k)].global_index]
                   ELSE 0]]

\* What copy_global_to_user stores at var.user_data; x0 is long enough.
UserBlock(var, x0) ==
    IF var.change_of_variables = nullptr
    THEN Slice(x0, var.global_index, var.user_dimension)
    ELSE t_to_x(var.change_of_variables,
                Slice(x0, var.global_index, t_dimension(var.change_of_variables)))

\* Whether copy_global_to_user stays inside x and inside the storage of var.
UserCopyDefined(var, x0) ==
    \/ var.is_constant
    \/ /\ var.change_of_variables = nullptr
       /\ var.global_index + var.user_dimension <= Len(x0)
    \/ /\ var.change_of_variables # nullptr
       /\ var.global_index + t_dimension(var.change_of_variables) <= Len(x0)
       /\ x_dimension(var.change_of_variables) = var.user_dimension

\* The loop of copy_global_to_user from the v-th variable on.
RECURSIVE StoreUserBlocks(_, _, _, _)
StoreUserBlocks(F, mem, x0, v) ==
    IF v > Len(F.variables) THEN mem
    ELSE LET var == F.variables[v]
             data == UserBlock(var, x0)
             stored == [cell \in DOMAIN mem |->
                           IF cell - var.user_data + 1 \in 1..Len(data)
                           THEN data[cell - var.user_data + 1] ELSE mem[cell]]
         IN  StoreUserBlocks(F, IF var.is_constant THEN mem ELSE stored, x0, v + 1)

\* copy_global_to_user(x): the caller's memory after it.
copy_global_to_user(F, mem, x0) ==
    LET defined == \A v \in 1..Len(F.variables) : UserCopyDefined(F.variables[v], x0)
    IN  [defined |-> defined,
         memory |-> IF defined THEN StoreUserBlocks(F, mem, x0, 1) ELSE mem]

\* TermFactory::fix_name(typeid(std::vector<std::map<double,int>>).name())
TypeFormat == "std::vector<std::map<double,int>>"

\* TermFactory::fix_name(typeid(*term).name()): the name of the term's class.
term_name(term) == term

\* operator<<(out, term): the parameters a term writes of itself.
TermParameters(term) == <<>>

\* TermFactory::create(term_name, in): the term of the class of that name,
\* and the number of tokens it read from the stream.
create(name) == [term |-> name, read |-> 0]

\* std::sort of a vector of pairs: by the first component, then the second.
PairLess(p, q) == p[1] < q[1] \/ (p[1] = q[1] /\ p[2] < q[2])

RECURSIVE sort(_)
sort(pairs) ==
    IF Len(pairs) = 0 THEN <<>>
    ELSE LET m == CHOOSE i \in 1..Len(pairs) :
                      \A j \in 1..Len(pairs) : ~PairLess(pairs[j], pairs[i])
         IN  <<pairs[m]>> \o sort(SubSeq(pairs, 1, m - 1)
                                    \o SubSeq(pairs, m + 1, Len(pairs)))

\* What write_to_stream writes for one term.
WriteTerm(added_term) ==
    <<term_name(added_term.term), Len(added_term.added_variables_indices)>>
        \o added_term.added_variables_indices
        \o TermParameters(added_term.term)

\* write_to_stream testing the transforms of the free variables only.
write_to_stream_skipping_constants(F, mem) ==
    LET header == <<"spii::function", 1, TypeFormat, Len(F.terms), Len(F.variables),
                    F.number_of_scalars, F.constant>>
        variable_dimensions ==
            sort([k \in 1..Len(F.variables) |->
                    <<F.variables[k].global_index, F.variables[k].user_dimension>>])
        dimensions == [k \in 1..Len(variable_dimensions) |-> variable_dimensions[k][2]]
        global == copy_user_to_global(F, mem)
        Result(tokens, message, defined) ==
            [tokens |-> tokens, error |-> message, defined |-> defined]
    IN  IF \E k \in 1..Len(F.variables) : /\ ~F.variables[k].is_constant
                                        /\ F.variables[k].change_of_variables # nullptr
        THEN Result(header, "Change of variables not allowed", TRUE)
        ELSE IF ~global.defined
        THEN Result(header \o dimensions, "", FALSE)
        ELSE Result(header \o dimensions \o global.x
                        \o Flatten([k \in 1..Len(F.terms) |-> WriteTerm(F.terms[k])]),
                    "", TRUE)

write_to_stream(F, mem) ==
    LET header == <<"spii::function", 1, TypeFormat, Len(F.terms), Len(F.variables),
                    F.number_of_scalars, F.constant>>
        variable_dimensions ==
            sort([k \in 1..Len(F.variables) |->
                    <<F.variables[k].global_index, F.variables[k].user_dimension>>])
        dimensions == [k \in 1..Len(variable_dimensions) |-> variable_dimensions[k][2]]
        global == copy_user_to_global(F, mem)
        Result(tokens, message, defined) ==
            [tokens |-> tokens, error |-> message, defined |-> defined]
    IN  IF \E k \in 1..Len(F.variables) : F.variables[k].change_of_variables # nullptr
        THEN Result(header, "Change of variables not allowed", TRUE)
        ELSE IF ~global.defined
        THEN Result(header \o dimensions, "", FALSE)
        ELSE Result(header \o dimensions \o global.x
                        \o Flatten([k \in 1..Len(F.terms) |-> WriteTerm(F.terms[k])]),
                    "", TRUE)

\* What read_from_stream leaves: the Function, *user_space, the message of
\* the exception that left the call, the position in the stream, and per
\* term the offsets it passed to user_space->at(offset).
Loaded(F, user_space, message, pos) ==
    [F |-> F, user_space |-> user_space, error |-> message, pos |-> pos,
     positions |-> <<>>]

\* The loop of read_from_stream over the variables, from variable i on;
\* `pos` is the number of tokens read so far.
RECURSIVE ReadVariables(_, _, _, _, _, _, _)
ReadVariables(F, tokens, user_space, pos, i, number_of_variables0, current_var) ==
    LET dimension == tokens[pos + 1]
        added == add_variable(F, current_var, dimension)
    IN  IF i >= number_of_variables0
        THEN [loaded |-> Loaded(F, user_space, "", pos), current_var |-> current_var]
        ELSE IF pos >= Len(tokens)
        THEN [loaded |-> Loaded(F, user_space, "Reading variable_dimension failed", pos),
              current_var |-> current_var]
        ELSE IF current_var >= Len(user_space)
        THEN [loaded |-> Loaded(F, user_space, "std::out_of_range", pos + 1),
              current_var |-> current_var]
        ELSE IF added.error # ""
        THEN [loaded |-> Loaded(added.F, user_space, added.error, pos + 1),
              current_var |-> current_var]
        ELSE ReadVariables(added.F, tokens, user_space, pos + 1, i + 1,
                           number_of_variables0, current_var + dimension)

\* The loop of read_from_stream over the terms, from term i on.
RECURSIVE ReadTerms(_, _, _, _, _, _, _)
ReadTerms(F, tokens, user_space, pos, i, number_of_terms, positions) ==
    LET name == tokens[pos + 1]
        term_vars == tokens[pos + 2]
        offsets == SubSeq(tokens, pos + 3, pos + 2 + term_vars)
        created == create(name)
        added == add_term(F, created.term, offsets)
        after == pos + 2 + term_vars + created.read
        Stop(G, message, at) ==
            [Loaded(G, user_space, message, at) EXCEPT !.positions = positions]
    IN  IF i >= number_of_terms THEN Stop(F, "", pos)
        ELSE IF pos + 2 > Len(tokens) \/ pos + 2 + term_vars > Len(tokens)
        THEN Stop(F, "Reading failed", pos)
        ELSE IF \E k \in 1..term_vars :
                    offsets[k] < 0 \/ offsets[k] >= Len(user_space)
        THEN Stop(F, "std::out_of_range", pos + 2 + term_vars)
        ELSE IF added.error # ""
        THEN [Stop(added.F, added.error, after) EXCEPT
                 !.positions = Append(positions, offsets)]
        ELSE ReadTerms(added.F, tokens, user_space, after, i + 1, number_of_terms,
                       Append(positions, offsets))

\* read_from_stream without the comparison of the first token.
read_from_stream_any_header(F, tokens) ==
    LET number_of_terms == tokens[4]
        number_of_variables0 == tokens[5]
        number_of_scalars == tokens[6]
        cleared == [clear EXCEPT !.hessian_is_enabled = F.hessian_is_enabled,
                                 !.constant = tokens[7]]
        user_space == Zeros(number_of_scalars)
        vs == ReadVariables(cleared, tokens, user_space, 7, 0, number_of_variables0, 0)
        after == vs.loaded.pos
        restored == SubSeq(tokens, after + 1, after + number_of_scalars)
    IN  IF Len(tokens) < 7
        THEN Loaded([clear EXCEPT !.hessian_is_enabled = F.hessian_is_enabled],
                    <<>>, "Reading failed", Len(tokens))
        ELSE IF tokens[3] # TypeFormat
        THEN Loaded([clear EXCEPT !.hessian_is_enabled = F.hessian_is_enabled],
                    <<>>, "Type format does not match", 3)
        ELSE IF vs.loaded.error # "" THEN vs.loaded
        ELSE IF vs.current_var # number_of_scalars
        THEN Loaded(vs.loaded.F, user_space, "Not enough variables in stream", after)
        ELSE IF after + number_of_scalars > Len(tokens)
        THEN Loaded(vs.loaded.F, user_space, "Reading user_space->at(i) failed", after)
        ELSE ReadTerms(vs.loaded.F, tokens, restored, after + number_of_scalars, 0,
                       number_of_terms, <<>>)

\* read_from_stream(in, user_space, factory) on the Function F. An address of
\* the Function read is &user_space->at(k): the model writes it k.
read_from_stream(F, tokens) ==
    LET number_of_terms == tokens[4]
        number_of_variables0 == tokens[5]
        number_of_scalars == tokens[6]
        cleared == [clear EXCEPT !.hessian_is_enabled = F.hessian_is_enabled,
                                 !.constant = tokens[7]]
        user_space == Zeros(number_of_scalars)
        vs == ReadVariables(cleared, tokens, user_space, 7, 0, number_of_variables0, 0)
        after == vs.loaded.pos
        restored == SubSeq(tokens, after + 1, after + number_of_scalars)
    IN  IF Len(tokens) < 7
        THEN Loaded([clear EXCEPT !.hessian_is_enabled = F.hessian_is_enabled],
                    <<>>, "Reading failed", Len(tokens))
        ELSE IF tokens[1] # "spii::function"
        THEN Loaded([clear EXCEPT !.hessian_is_enabled = F.hessian_is_enabled],
                    <<>>, "Not a function stream", 1)
        ELSE IF tokens[3] # TypeFormat
        THEN Loaded([clear EXCEPT !.hessian_is_enabled = F.hessian_is_enabled],
                    <<>>, "Type format does not match", 3)
        ELSE IF vs.loaded.error # "" THEN vs.loaded
        ELSE IF vs.current_var # number_of_scalars
        THEN Loaded(vs.loaded.F, user_space, "Not enough variables in stream", after)
        ELSE IF after + number_of_scalars > Len(tokens)
        THEN Loaded(vs.loaded.F, user_space, "Reading user_space->at(i) failed", after)
        ELSE ReadTerms(vs.loaded.F, tokens, restored, after + number_of_scalars, 0,
                       number_of_terms, <<>>)

-----------------------------------------------------------------------------
(* The calls a caller makes while building the function.                   *)

\* The last call: its name and the message of the exception it raised ("" when
\* it returned).
Call(op, error) == [op |-> op, error |-> error]

\* What get_number_of_scalars and get_variable_global_index report.
Observed(F) ==
    [scalars |-> get_number_of_scalars(F),
     index |-> [a \in DOMAIN F.variables_map |->
                    F.variables[F.variables_map[a] + 1].global_index]]

\* toggle.stage = 1 after set_constant(v, true) on a free variable v, 2 when
\* the next call is set_constant(v, false); `before` is what was observed
\* before the first of the two calls.
NoToggle == [stage |-> 0, variable |-> 0, before |-> Observed(clear)]

IsFree(F, variable) ==
    MapFind(F, variable) /\ ~F.variables[F.variables_map[variable] + 1].is_constant

AddVariable ==
    /\ calls < MaxCalls
    /\ \E variable \in UserAddresses, dimension \in Dimensions,
       change_of_variables \in ChangesOfVariables \cup {nullptr} :
        LET r == add_variable_internal(f, variable, dimension, change_of_variables)
        IN  /\ f' = r.F
            /\ last' = Call("add_variable", r.error)
            /\ toggle' = NoToggle
            /\ calls' = calls + 1
            /\ UNCHANGED <<callVars, memory, results, streamVars>>

AddTerm ==
    /\ calls < MaxCalls
    /\ \E term \in Terms, arguments \in ArgumentLists :
        LET r == add_term(f, term, arguments)
        IN  /\ Len(r.F.terms) <= MaxTerms
            /\ f' = r.F
            /\ last' = Call("add_term", r.error)
            /\ toggle' = NoToggle
            /\ calls' = calls + 1
            /\ UNCHANGED <<callVars, memory, results, streamVars>>

SetConstant ==
    /\ calls < MaxCalls
    /\ \E variable \in UserAddresses, is_constant \in BOOLEAN :
        LET r == set_constant(f, variable, is_constant)
        IN  /\ f' = r.F
            /\ last' = Call("set_constant", r.error)
            /\ toggle' =
                 IF is_constant /\ IsFree(f, variable)
                 THEN [stage |-> 1, variable |-> variable, before |-> Observed(f)]
                 ELSE IF ~is_constant /\ toggle.stage = 1 /\ toggle.variable = variable
                 THEN [toggle EXCEPT !.stage = 2]
                 ELSE NoToggle
            /\ calls' = calls + 1
            /\ UNCHANGED <<callVars, memory, results, streamVars>>

Cells == 0..(NumAddresses * MaxDimension - 1)

\* No stream written yet, and no Function read yet.
NoStream == [tokens |-> <<>>, error |-> "", defined |-> TRUE]

NotLoaded == Loaded(clear, <<>>, "", 0)

\* enum { GRADIENT_TOLERANCE, ..., NA } exit_condition, in the order of the
\* enumerators.
ExitConditions ==
    <<"GRADIENT_TOLERANCE", "FUNCTION_TOLERANCE", "ARGUMENT_TOLERANCE",
      "NO_CONVERGENCE", "FUNCTION_NAN", "FUNCTION_INFINITY", "USER_ABORT",
      "INTERNAL_ERROR", "NA">>

\* SolverResults::SolverResults(): no exit condition yet. `asked` and
\* `returned` record the caller's last call of exit_success.
SolverResults == [exit_condition |-> "NA", asked |-> FALSE, returned |-> FALSE]

\* exit_success answering for the tolerance on the gradient only.
exit_success_gradient_only(R) == R.exit_condition = "GRADIENT_TOLERANCE"

\* bool SolverResults::exit_success() const
exit_success(R) ==
    \/ R.exit_condition = "GRADIENT_TOLERANCE"
    \/ R.exit_condition = "FUNCTION_TOLERANCE"
    \/ R.exit_condition = "ARGUMENT_TOLERANCE"

Init ==
    /\ f = clear
    /\ last = Call("Function", "")
    /\ toggle = NoToggle
    /\ calls = 0
    /\ pc = "idle"
    /\ request = ""
    /\ x = <<>>
    /\ todo = {}
    /\ worker = <<>>
    /\ value = <<>>
    /\ evaluation_errors = <<>>
    /\ writes = <<>>
    /\ log = <<>>
    /\ out = NoOutput
    /\ memory = [cell \in Cells |-> cell + 1]
    /\ stream = NoStream
    /\ g = NotLoaded
    /\ results = SolverResults

Next == AddVariable \/ AddTerm \/ SetConstant

Spec == Init /\ [][Next]_vars

-----------------------------------------------------------------------------
(* Evaluation: a caller that builds the function with at most MaxCalls     *)
(* calls in all and evaluates it; the iterations of the parallel loop are  *)
(* taken by the worker threads in any order and any assignment.            *)

Requests == {"user", "value", "gradient", "dense", "sparse"}

\* The points a caller passes: vectors of one coordinate per scalar.
Points(n) == { [k \in 1..n |-> p + k - 1] : p \in 1..MaxPoints }

Idle == [stage |-> "idle", i |-> 0]

BuildAddVariable ==
    /\ pc = "idle" /\ calls < MaxCallsEval
    /\ \E variable \in UserAddresses, dimension \in Dimensions,
          change_of_variables \in ChangesOfVariables \cup {nullptr} :
            f' = add_variable_internal(f, variable, dimension, change_of_variables).F
    /\ calls' = calls + 1
    /\ UNCHANGED <<last, toggle, callVars, memory, results, streamVars>>

BuildAddTerm ==
    /\ pc = "idle" /\ calls < MaxCallsEval
    /\ \E term \in Terms, arguments \in ArgumentLists :
            /\ Len(add_term(f, term, arguments).F.terms) <= MaxTerms
            /\ f' = add_term(f, term, arguments).F
    /\ calls' = calls + 1
    /\ UNCHANGED <<last, toggle, callVars, memory, results, streamVars>>

BuildSetConstant ==
    /\ pc = "idle" /\ calls < MaxCallsEval
    /\ \E variable \in UserAddresses, is_constant \in BOOLEAN :
            f' = set_constant(f, variable, is_constant).F
    /\ calls' = calls + 1
    /\ UNCHANGED <<last, toggle, callVars, memory, results, streamVars>>

SetNumberOfThreads ==
    /\ pc = "idle" /\ calls < MaxCallsEval
    /\ \E num \in 0..MaxThreads : f' = set_number_of_threads(f, num).F
    /\ calls' = calls + 1
    /\ UNCHANGED <<last, toggle, callVars, memory, results, streamVars>>

EvaluateBegin ==
    /\ pc = "idle" /\ calls < MaxCallsEval
    /\ \E rq \in Requests, x0 \in Points(f.number_of_scalars) :
        LET b == BeginEvaluate(f, x0, rq, memory)
            entered == b.defined /\ b.error = ""
        IN  /\ f' = b.F
            /\ request' = rq
            /\ x' = IF rq = "user" THEN <<>> ELSE x0
            /\ pc' = IF entered THEN "parallel"
                     ELSE IF b.defined THEN "returned" ELSE "undefined"
            /\ out' = [NoOutput EXCEPT !.error = b.error]
            /\ todo' = IF entered THEN 0..(Len(f.terms) - 1) ELSE {}
            /\ worker' = [t \in 1..f.number_of_threads |-> Idle]
            /\ value' = [t \in 1..f.number_of_threads |-> 0]
            /\ evaluation_errors' = [t \in 1..f.number_of_threads |-> ""]
            /\ writes' = [t \in 1..f.number_of_threads |-> {}]
            /\ log' = <<>>
    /\ calls' = calls + 1
    /\ UNCHANGED <<last, toggle, memory, results, streamVars>>

\* What Term::evaluate writes for terms[i] in worker t when it returns.
EvaluateTermWrites(F, t, i, rq) ==
    LET term == F.terms[i + 1].term
        n == number_of_variables(term)
    IN  { Location("value", t, <<>>) }
        \cup (IF WithGradient(rq)
              THEN { Location("thread_gradient_scratch", ScratchOf(t), <<var, k>>) :
                        var \in 0..(n - 1), k \in 0..(MaxDimension - 1) }
              ELSE {})
        \cup (IF WithHessian(rq)
              THEN { Location("hessian", i, <<var0, var1>>) :
                        var0 \in 0..(n - 1), var1 \in 0..(n - 1) }
              ELSE {})

\* An iteration of the loop, as the log keeps it: the worker, the term and
\* the message of the exception raised ("" for none).
Iteration(t, i, error) == [t |-> t, i |-> i, error |-> error]

\* Worker t takes iteration i of the loop and evaluates terms[i]; if the
\* term throws, the worker catches the exception and the iteration ends.
WorkerEvaluateTerm ==
    /\ pc = "parallel"
    /\ \E t \in 0..(f.number_of_threads - 1), i \in todo :
        LET r == EvaluateTerm(f, t, i, request)
        IN  /\ worker[t + 1].stage = "idle"
            /\ f' = r.F
            /\ value' = [value EXCEPT ![t + 1] = @ + r.value]
            /\ worker' = [worker EXCEPT ![t + 1] =
                            IF r.error = "" /\ WithGradient(request)
                            THEN [stage |-> "put", i |-> i] ELSE Idle]
            /\ todo' = todo \ {i}
            /\ evaluation_errors' =
                 IF r.error = "" THEN evaluation_errors
                 ELSE [evaluation_errors EXCEPT ![t + 1] = r.error]
            /\ writes' = [writes EXCEPT ![t + 1] =
                            @ \cup IF r.error = ""
                                   THEN EvaluateTermWrites(f, t, i, request)
                                   ELSE {Location("evaluation_errors", t, <<>>)}]
            /\ log' = Append(log, Iteration(t, i, r.error))
    /\ UNCHANGED <<last, toggle, calls, pc, request, x, out, memory, results, streamVars>>

\* Worker t adds the gradient of its term to its accumulator and ends the
\* iteration, or catches the exception the body raised.
WorkerPutGradient ==
    /\ pc = "parallel"
    /\ \E t \in 0..(f.number_of_threads - 1) :
        LET r == PutGradient(f, x, request, t, worker[t + 1].i, 0, {})
        IN  /\ worker[t + 1].stage = "put"
            /\ f' = r.F
            /\ pc' = IF r.defined THEN "parallel" ELSE "undefined"
            /\ worker' = [worker EXCEPT ![t + 1] = Idle]
            /\ evaluation_errors' =
                 IF r.error = "" THEN evaluation_errors
                 ELSE [evaluation_errors EXCEPT ![t + 1] = r.error]
            /\ writes' = [writes EXCEPT ![t + 1] =
                 @ \cup r.written
                   \cup IF r.error = "" THEN {}
                        ELSE {Location("evaluation_errors", t, <<>>)}]
            /\ log' = IF r.error = "" THEN log
                      ELSE Append(log, Iteration(t, worker[t + 1].i, r.error))
    /\ UNCHANGED <<last, toggle, calls, request, x, todo, value, out, memory, results,
                   streamVars>>

\* Every iteration has ended: the threads join and the call finishes.
EvaluateEnd ==
    /\ pc = "parallel"
    /\ todo = {}
    /\ \A t \in 1..Len(worker) : worker[t].stage = "idle"
    /\ LET r == EndEvaluate(f, request, value, evaluation_errors)
       IN  /\ f' = r.F
           /\ out' = r.out
           /\ pc' = IF r.defined THEN "returned" ELSE "undefined"
    /\ UNCHANGED <<last, toggle, calls, request, x, todo, worker, value,
                   evaluation_errors, writes, log, memory, results, streamVars>>

\* The caller takes the result; the engine is idle again.
Return ==
    /\ pc = "returned"
    /\ pc' = "idle"
    /\ request' = ""
    /\ x' = <<>>
    /\ todo' = {}
    /\ worker' = <<>>
    /\ value' = <<>>
    /\ evaluation_errors' = <<>>
    /\ writes' = <<>>
    /\ log' = <<>>
    /\ out' = NoOutput
    /\ UNCHANGED <<f, last, toggle, calls, memory, results, streamVars>>

NextEval ==
    \/ BuildAddVariable \/ BuildAddTerm \/ BuildSetConstant \/ SetNumberOfThreads
    \/ EvaluateBegin \/ WorkerEvaluateTerm \/ WorkerPutGradient \/ EvaluateEnd
    \/ Return

SpecEval == Init /\ [][NextEval]_vars

-----------------------------------------------------------------------------
(* The round trip through a stream: a caller builds a function without     *)
(* transforms and without constant variables, writes it and reads it back  *)
(* into a second Function.                                                 *)

StreamAddVariable ==
    /\ pc = "idle" /\ calls < MaxCallsStream
    /\ \E variable \in UserAddresses, dimension \in Dimensions :
            f' = add_variable(f, variable, dimension).F
    /\ calls' = calls + 1
    /\ UNCHANGED <<last, toggle, callVars, memory, results, streamVars>>

StreamAddTerm ==
    /\ pc = "idle" /\ calls < MaxCallsStream
    /\ \E term \in Terms, arguments \in ArgumentLists :
            /\ Len(add_term(f, term, arguments).F.terms) <= MaxTerms
            /\ f' = add_term(f, term, arguments).F
    /\ calls' = calls + 1
    /\ UNCHANGED <<last, toggle, callVars, memory, results, streamVars>>

AddConstant ==
    /\ pc = "idle" /\ calls < MaxCallsStream
    /\ f.constant < MaxConstant
    /\ f' = AddConstantValue(f, 1)
    /\ calls' = calls + 1
    /\ UNCHANGED <<last, toggle, callVars, memory, results, streamVars>>

WriteToStream ==
    /\ pc = "idle"
    /\ stream' = write_to_stream(f, memory)
    /\ pc' = IF stream'.defined THEN "written" ELSE "undefined"
    /\ UNCHANGED <<f, last, toggle, calls, request, x, todo, worker, value,
                   evaluation_errors, writes, log, out, memory, results, g>>

ReadFromStream ==
    /\ pc = "written"
    /\ stream.error = ""
    /\ g' = read_from_stream(clear, stream.tokens)
    /\ pc' = "loaded"
    /\ UNCHANGED <<f, last, toggle, calls, request, x, todo, worker, value,
                   evaluation_errors, writes, log, out, memory, results, stream>>

NextStream ==
    StreamAddVariable \/ StreamAddTerm \/ AddConstant \/ WriteToStream \/ ReadFromStream

SpecStream == Init /\ [][NextStream]_vars

-----------------------------------------------------------------------------
(* Copy assignment.                                                        *)

\* spii_assert(condition): the message of the failure, "" when it holds.
spii_assert(condition) == IF condition THEN "" ELSE "assertion failed"

\* The keys of a std::map in the order its iterator visits them.
RECURSIVE KeysInOrder(_)
KeysInOrder(keys) ==
    IF keys = {} THEN <<>>
    ELSE LET least == CHOOSE a \in keys : \A b \in keys : a <= b
         IN  <<least>> \o KeysInOrder(keys \ {least})

\* The first loop of operator=: the variables of org from the i-th key of
\* its variables_map on, added to F; user_variables maps the global_index a
\* variable has in org to its address.
RECURSIVE CopyVariables(_, _, _, _, _)
CopyVariables(F, org, keys, i, user_variables) ==
    IF i > Len(keys)
    THEN [F |-> F, error |-> "", user_variables |-> user_variables]
    ELSE LET var_info == org.variables[org.variables_map[keys[i]] + 1]
             added == add_variable_internal(F, keys[i], var_info.user_dimension,
                                            var_info.change_of_variables)
         IN  IF added.error # ""
             THEN [F |-> added.F, error |-> added.error, user_variables |-> user_variables]
             ELSE CopyVariables(added.F, org, keys, i + 1,
                                MapInsert(user_variables, var_info.global_index, keys[i]))

\* The second loop of operator=: the terms of org from the k-th on.
RECURSIVE CopyTerms(_, _, _, _)
CopyTerms(F, org, user_variables, k) ==
    IF k > Len(org.terms) THEN Returned(F)
    ELSE LET indices == org.terms[k].added_variables_indices
             index(var) == org.variables[indices[var] + 1].global_index
             found == \A var \in 1..Len(indices) : index(var) \in DOMAIN user_variables
             added == add_term(F, org.terms[k].term,
                               [var \in 1..Len(indices) |-> user_variables[index(var)]])
         IN  IF ~found THEN Thrown(F, spii_assert(found))
             ELSE IF added.error # "" THEN added
             ELSE CopyTerms(added.F, org, user_variables, k + 1)

\* Function::operator=(const Function& org) on another Function F.
operator_assign(F, org) ==
    LET cleared == [clear EXCEPT !.hessian_is_enabled = org.hessian_is_enabled,
                                 !.constant = org.constant]
        copied == CopyVariables(cleared, org, KeysInOrder(DOMAIN org.variables_map),
                                1, <<>>)
        asserted ==
            spii_assert(/\ Len(org.variables) = Cardinality(DOMAIN copied.user_variables)
                        /\ get_number_of_variables(copied.F) = get_number_of_variables(org)
                        /\ get_number_of_scalars(copied.F) = get_number_of_scalars(org))
    IN  IF copied.error # "" THEN Thrown(copied.F, copied.error)
        ELSE IF asserted # "" THEN Thrown(copied.F, asserted)
        ELSE CopyTerms(copied.F, org, copied.user_variables, 1)

-----------------------------------------------------------------------------
(* SpecArchive: a caller builds a function with transforms and constant    *)
(* variables and writes it; the stream, as written or with one of its      *)
(* header tokens altered, is read into a second Function.                  *)

ArchiveAddVariable ==
    /\ pc = "idle" /\ calls < MaxCallsStream
    /\ \E variable \in UserAddresses, dimension \in Dimensions,
          change_of_variables \in ChangesOfVariables \cup {nullptr} :
        LET r == add_variable_internal(f, variable, dimension, change_of_variables)
        IN  /\ f' = r.F
            /\ last' = Call("add_variable", r.error)
    /\ calls' = calls + 1
    /\ UNCHANGED <<toggle, callVars, memory, results, streamVars>>

ArchiveAddTerm ==
    /\ pc = "idle" /\ calls < MaxCallsStream
    /\ \E term \in Terms, arguments \in ArgumentLists :
        LET r == add_term(f, term, arguments)
        IN  /\ Len(r.F.terms) <= MaxTerms
            /\ f' = r.F
            /\ last' = Call("add_term", r.error)
    /\ calls' = calls + 1
    /\ UNCHANGED <<toggle, callVars, memory, results, streamVars>>

ArchiveSetConstant ==
    /\ pc = "idle" /\ calls < MaxCallsStream
    /\ \E variable \in UserAddresses, is_constant \in BOOLEAN :
        LET r == set_constant(f, variable, is_constant)
        IN  /\ f' = r.F
            /\ last' = Call("set_constant", r.error)
    /\ calls' = calls + 1
    /\ UNCHANGED <<toggle, callVars, memory, results, streamVars>>

\* The variable dimensions a stream records, and their sum.
RecordedDimensions(tokens) == SubSeq(tokens, 8, 7 + tokens[5])

RecordedSum(tokens) == SumSeq(RecordedDimensions(tokens))

\* The streams that differ from `tokens` in the first token, in the type
\* format, or in the scalar count or one variable dimension so that the
\* dimensions do not sum to the scalar count.
AlteredStreams(tokens) ==
    {[tokens EXCEPT ![1] = "spii::other"], [tokens EXCEPT ![3] = "other format"]}
    \cup { altered \in
             { [tokens EXCEPT ![6] = n] : n \in 0..(NumAddresses * MaxDimension) }
             \cup { [tokens EXCEPT ![7 + k] = d] : k \in 1..tokens[5], d \in Dimensions } :
           RecordedSum(altered) # altered[6] }

AlterStream ==
    /\ pc = "written" /\ stream.error = ""
    /\ \E altered \in AlteredStreams(stream.tokens) :
           /\ altered # stream.tokens
           /\ stream' = [stream EXCEPT !.tokens = altered]
    /\ pc' = "altered"
    /\ UNCHANGED <<f, last, toggle, calls, request, x, todo, worker, value,
                   evaluation_errors, writes, log, out, memory, results, g>>

ReadFromAlteredStream ==
    /\ pc = "altered"
    /\ g' = read_from_stream(clear, stream.tokens)
    /\ pc' = "loaded"
    /\ UNCHANGED <<f, last, toggle, calls, request, x, todo, worker, value,
                   evaluation_errors, writes, log, out, memory, results, stream>>

NextArchive ==
    \/ ArchiveAddVariable \/ ArchiveAddTerm \/ ArchiveSetConstant
    \/ WriteToStream \/ AlterStream \/ ReadFromStream \/ ReadFromAlteredStream

SpecArchive == Init /\ [][NextArchive]_vars

\* g = f for a second Function g.
CopyAssign ==
    /\ pc = "idle"
    /\ LET r == operator_assign(g.F, f)
       IN  g' = Loaded(r.F, <<>>, r.error, 0)
    /\ pc' = "copied"
    /\ UNCHANGED <<f, last, toggle, calls, request, x, todo, worker, value,
                   evaluation_errors, writes, log, out, memory, results, stream>>

\* A caller that builds a function and assigns it to another.
NextCopy ==
    ArchiveAddVariable \/ ArchiveAddTerm \/ ArchiveSetConstant \/ CopyAssign

SpecCopy == Init /\ [][NextCopy]_vars

-----------------------------------------------------------------------------
(* Properties of the registries, under Spec.                               *)

\* The variables whose registration completed: add_variable gave them a
\* dimension (every dimension a caller passes is at least 1).
Registered(F) == { i \in 1..Len(F.variables) : F.variables[i].user_dimension > 0 }

\* The block of the global scalar vector a variable occupies.
IndexRange(var) == var.global_index..(var.global_index + var.solver_dimension - 1)

\* C3: add_term is all-or-nothing: a call that fails because an argument's
\* registered dimension differs from the one the term declares leaves the
\* number of terms, the number of variables, the scalar count and the address
\* map as they were before the call.
C3_AddTermAllOrNothing ==
    [][(last'.op = "add_term"
            /\ last'.error = "variable dimension does not match term")
        => /\ get_number_of_terms(f') = get_number_of_terms(f)
           /\ get_number_of_variables(f') = get_number_of_variables(f)
           /\ get_number_of_scalars(f') = get_number_of_scalars(f)
           /\ f'.variables_map = f.variables_map]_vars

\* C4: a failing add_variable leaves the number of variables, the address map
\* and the scalar count as they were before the call.
C4_AddVariableAllOrNothing ==
    [][(last'.op = "add_variable" /\ last'.error # "")
        => /\ get_number_of_variables(f') = get_number_of_variables(f)
           /\ f'.variables_map = f.variables_map
           /\ get_number_of_scalars(f') = get_number_of_scalars(f)]_vars

\* C5: the index range of every constant variable lies at or after
\* number_of_scalars, and overlaps the range of no other variable, constant
\* or free.
C5_ConstantsAfterFree ==
    \A i \in Registered(f) :
        f.variables[i].is_constant =>
            /\ f.variables[i].global_index >= f.number_of_scalars
            /\ \A j \in Registered(f) \ {i} :
                    IndexRange(f.variables[i]) \cap IndexRange(f.variables[j]) = {}

\* C6: after set_constant(v, true); set_constant(v, false) on a free variable
\* v, get_number_of_scalars() and the global index of every other variable are
\* what they were before the two calls.
C6_ToggleRestores ==
    toggle.stage = 2 =>
        /\ Observed(f).scalars = toggle.before.scalars
        /\ \A a \in DOMAIN toggle.before.index :
              (a # toggle.variable /\ f.variables_map[a] + 1 \in Registered(f))
                  => Observed(f).index[a] = toggle.before.index[a]

\* C7: a variable without a transform has solver_dimension = user_dimension;
\* a variable with a transform has user_dimension = x_dimension and
\* solver_dimension = t_dimension of that transform.
C7_DimensionsFollowTransform ==
    \A i \in Registered(f) :
        LET var == f.variables[i]
        IN  IF var.change_of_variables = nullptr
            THEN var.solver_dimension = var.user_dimension
            ELSE /\ var.user_dimension = x_dimension(var.change_of_variables)
                 /\ var.solver_dimension = t_dimension(var.change_of_variables)

\* C8: re-registering a known address with a transform succeeds only if the
\* transform's x_dimension and t_dimension are the variable's user_dimension
\* and solver_dimension; a rejected call leaves the variable the transform, or
\* the absence of one, it had.
C8_RejectedUpdateKeepsTransform ==
    [][\A variable \in UserAddresses, dimension \in Dimensions,
          change_of_variables \in ChangesOfVariables :
            LET r == add_variable_internal(f, variable, dimension, change_of_variables)
                i == f.variables_map[variable] + 1
            IN  (/\ MapFind(f, variable)
                 /\ i \in Registered(f)
                 /\ last' = Call("add_variable", r.error)
                 /\ f' = r.F)
                => IF r.error = ""
                   THEN /\ x_dimension(change_of_variables) = f.variables[i].user_dimension
                        /\ t_dimension(change_of_variables) = f.variables[i].solver_dimension
                   ELSE f'.variables[i].change_of_variables
                            = f.variables[i].change_of_variables]_vars

-----------------------------------------------------------------------------
(* Properties of the stream format, under SpecStream.                      *)

\* What a term is bound to, argument by argument: the global scalar offset
\* and the dimension of each variable.
Binding(F, k) ==
    [var \in 1..Len(F.terms[k].added_variables_indices) |->
        LET v == F.variables[F.terms[k].added_variables_indices[var] + 1]
        IN  [offset |-> v.global_index, dimension |-> v.user_dimension]]

\* C1: write_to_stream followed by read_from_stream yields a function with
\* the same scalar count, the same constant, the same number of terms, and
\* each term bound, argument by argument, to variables at the same global
\* offsets and of the same dimensions as in the original.
C1_RoundTrip ==
    pc = "loaded" =>
        /\ g.error = ""
        /\ get_number_of_scalars(g.F) = get_number_of_scalars(f)
        /\ g.F.constant = f.constant
        /\ get_number_of_terms(g.F) = get_number_of_terms(f)
        /\ \A k \in 1..Len(f.terms) : Binding(g.F, k) = Binding(f, k)

\* C2: for every term, the numbers write_to_stream emits per argument, which
\* read_from_stream uses as positions into user_space, are the global_index
\* of the variables the term is bound to.
C2_EmittedOffsetsAreGlobal ==
    pc = "loaded" =>
        /\ Len(g.positions) = Len(f.terms)
        /\ \A k \in 1..Len(f.terms) :
              g.positions[k] = [var \in 1..Len(Binding(f, k)) |-> Binding(f, k)[var].offset]

-----------------------------------------------------------------------------
(* Interval evaluation.  The caller's vector of Interval<double> is given  *)
(* by the vector of its lower bounds; every interval has the same width.   *)

IntervalWidth == 1

\* Term::evaluate_interval for the terms of the model, on arguments that are
\* not negative: the values at the lower and at the upper bounds.
TermInterval(term, lower, upper) ==
    [lower |-> TermValue(term, lower), upper |-> TermValue(term, upper)]

\* scratch_space of every term: the positions global_index of x, one per
\* bound variable, whose addresses the term is handed.
IntervalReferences(F) ==
    [k \in 1..Len(F.terms) |->
        [var \in 1..Len(F.terms[k].added_variables_indices) |->
            F.variables[F.terms[k].added_variables_indices[var] + 1].global_index]]

\* Function::Implementation::evaluate(const std::vector<Interval<double>>& x).
\* A position outside x, or a term reading past the end of x, is undefined.
evaluate_interval(F, x0) ==
    LET references == IntervalReferences(F)
        inside == \A k \in 1..Len(F.terms) : \A var \in 1..Len(references[k]) :
                     references[k][var] + variable_dimension(F.terms[k].term, var - 1)
                         <= Len(x0)
        Arguments(k, width) ==
            [var \in 1..Len(references[k]) |->
                [i \in 1..variable_dimension(F.terms[k].term, var - 1) |->
                    x0[references[k][var] + i] + width]]
        values == [k \in 1..Len(F.terms) |->
                      TermInterval(F.terms[k].term, Arguments(k, 0),
                                   Arguments(k, IntervalWidth))]
    IN  IF ~inside
        THEN [defined |-> FALSE, out |-> [NoOutput EXCEPT !.references = references]]
        ELSE [defined |-> TRUE,
              out |-> [NoOutput EXCEPT
                  !.references = references,
                  !.value = F.constant + SumSeq([k \in 1..Len(values) |-> values[k].lower]),
                  !.upper = F.constant + SumSeq([k \in 1..Len(values) |-> values[k].upper])]]

-----------------------------------------------------------------------------
(* SpecSerial: a caller that builds a Function and evaluates it, each call *)
(* run to its end.                                                         *)

SerialAddVariable ==
    /\ pc = "idle" /\ calls < MaxCallsSerial
    /\ \E variable \in UserAddresses, dimension \in Dimensions,
          change_of_variables \in ChangesOfVariables \cup {nullptr} :
        LET r == add_variable_internal(f, variable, dimension, change_of_variables)
        IN  /\ f' = r.F
            /\ last' = Call("add_variable", r.error)
    /\ calls' = calls + 1
    /\ UNCHANGED <<toggle, callVars, memory, results, streamVars>>

SerialAddTerm ==
    /\ pc = "idle" /\ calls < MaxCallsSerial
    /\ \E term \in Terms, arguments \in ArgumentLists :
        LET r == add_term(f, term, arguments)
        IN  /\ Len(r.F.terms) <= MaxTerms
            /\ f' = r.F
            /\ last' = Call("add_term", r.error)
    /\ calls' = calls + 1
    /\ UNCHANGED <<toggle, callVars, memory, results, streamVars>>

SerialSetConstant ==
    /\ pc = "idle" /\ calls < MaxCallsSerial
    /\ \E variable \in UserAddresses, is_constant \in BOOLEAN :
        LET r == set_constant(f, variable, is_constant)
        IN  /\ f' = r.F
            /\ last' = Call("set_constant", r.error)
    /\ calls' = calls + 1
    /\ UNCHANGED <<toggle, callVars, memory, results, streamVars>>

SerialGetVariableGlobalIndex ==
    /\ pc = "idle" /\ calls < MaxCallsSerial
    /\ \E variable \in UserAddresses :
        LET r == get_variable_global_index(f, variable)
        IN  /\ f' = r.F
            /\ last' = Call("get_variable_global_index", r.error)
    /\ calls' = calls + 1
    /\ UNCHANGED <<toggle, callVars, memory, results, streamVars>>

\* One of the evaluate calls, run to its end with every iteration of the loop
\* on thread 0.
SerialEvaluate ==
    /\ pc = "idle" /\ calls < MaxCallsSerial
    /\ \E rq \in Requests, x0 \in Points(f.number_of_scalars) :
        LET r == ThreadZeroRuns(f, x0, rq, memory)
        IN  /\ f' = r.F
            /\ request' = rq
            /\ x' = IF rq = "user" THEN <<>> ELSE x0
            /\ out' = r.out
            /\ pc' = IF r.defined THEN "returned" ELSE "undefined"
            /\ last' = Call("evaluate", r.out.error)
    /\ calls' = calls + 1
    /\ UNCHANGED <<toggle, todo, worker, value, evaluation_errors, writes, log,
                   memory, results, streamVars>>

\* evaluate(x) for a vector x of one Interval per scalar.
SerialEvaluateInterval ==
    /\ pc = "idle" /\ calls < MaxCallsSerial
    /\ \E x0 \in Points(f.number_of_scalars) :
        LET r == evaluate_interval(f, x0)
        IN  /\ request' = "interval"
            /\ x' = x0
            /\ out' = r.out
            /\ pc' = IF r.defined THEN "returned" ELSE "undefined"
    /\ last' = Call("evaluate_interval", "")
    /\ calls' = calls + 1
    /\ UNCHANGED <<f, toggle, todo, worker, value, evaluation_errors, writes, log,
                   memory, results, streamVars>>

SerialCreateSparseHessian ==
    /\ pc = "idle" /\ calls < MaxCallsSerial
    /\ LET r == create_sparse_hessian(f)
       IN  /\ f' = r.F
           /\ last' = Call("create_sparse_hessian", r.error)
           /\ pc' = IF r.defined THEN pc ELSE "undefined"
    /\ calls' = calls + 1
    /\ UNCHANGED <<toggle, request, x, todo, worker, value, evaluation_errors, writes,
                   log, out, memory, results, streamVars>>

\* The caller assigns the public member hessian_is_enabled.
AssignHessianIsEnabled ==
    /\ pc = "idle" /\ calls < MaxCallsSerial
    /\ \E enabled \in BOOLEAN :
        /\ f' = [f EXCEPT !.hessian_is_enabled = enabled]
        /\ last' = Call("hessian_is_enabled", "")
    /\ calls' = calls + 1
    /\ UNCHANGED <<toggle, callVars, memory, results, streamVars>>

NextSerial ==
    \/ SerialAddVariable \/ SerialAddTerm \/ SerialSetConstant
    \/ SerialGetVariableGlobalIndex \/ SerialCreateSparseHessian
    \/ SerialEvaluate \/ SerialEvaluateInterval \/ Return

SpecSerial == Init /\ [][NextSerial]_vars

\* A caller that also switches the Hessian off and on.
NextHessian ==
    \/ SerialAddTerm \/ AssignHessianIsEnabled \/ SerialEvaluate \/ Return

SpecHessian == Init /\ [][NextHessian]_vars

\* Solver::solve(f, &results) as its caller sees it in `results`: the solver
\* ends with one of the exit conditions. What it does to the function and to
\* the caller's variables is left out here.
Solve ==
    /\ pc = "idle" /\ calls < MaxCallsSerial
    /\ \E k \in 1..Len(ExitConditions) :
           results' = [results EXCEPT !.exit_condition = ExitConditions[k]]
    /\ last' = Call("solve", "")
    /\ calls' = calls + 1
    /\ UNCHANGED <<f, toggle, callVars, memory, streamVars>>

\* The caller asks results.exit_success().
ExitSuccess ==
    /\ pc = "idle" /\ calls < MaxCallsSerial
    /\ results' = [results EXCEPT !.asked = TRUE, !.returned = exit_success(results)]
    /\ last' = Call("exit_success", "")
    /\ calls' = calls + 1
    /\ UNCHANGED <<f, toggle, callVars, memory, streamVars>>

\* A caller that builds a function, minimizes it and asks how the solver
\* ended.
NextSolver == SerialAddVariable \/ SerialAddTerm \/ Solve \/ ExitSuccess

SpecSolver == Init /\ [][NextSolver]_vars

\* copy_user_to_global(&x) into a vector x of the caller.
CopyUserToGlobal ==
    /\ pc = "idle"
    /\ LET r == copy_user_to_global(f, memory)
       IN  /\ x' = r.x
           /\ pc' = IF r.defined THEN "gathered" ELSE "undefined"
    /\ last' = Call("copy_user_to_global", "")
    /\ UNCHANGED <<f, toggle, calls, request, todo, worker, value,
                   evaluation_errors, writes, log, out, memory, results, streamVars>>

\* copy_global_to_user(x) for the vector copy_user_to_global filled, or for
\* a vector of the caller with one coordinate per scalar.
CopyGlobalToUser ==
    /\ pc \in {"idle", "gathered"}
    /\ \E x0 \in Points(f.number_of_scalars) \cup (IF pc = "gathered" THEN {x} ELSE {}) :
        LET r == copy_global_to_user(f, memory, x0)
        IN  /\ x' = x0
            /\ memory' = r.memory
            /\ pc' = IF r.defined THEN "scattered" ELSE "undefined"
    /\ last' = Call("copy_global_to_user", "")
    /\ UNCHANGED <<f, toggle, calls, request, todo, worker, value,
                   evaluation_errors, writes, log, out, results, streamVars>>

\* A caller that registers variables and copies between their storage and
\* the global vector.
NextUser ==
    SerialAddVariable \/ SerialSetConstant \/ CopyUserToGlobal \/ CopyGlobalToUser

SpecUser == Init /\ [][NextUser]_vars

-----------------------------------------------------------------------------
(* Properties of the evaluation, under SpecEval.                           *)

\* What a call hands back, leaving out which of several exceptions it is.
Outcome(o) == [o EXCEPT !.error = IF @ = "" THEN "" ELSE "raised"]

\* C9: whatever the number of workers and whichever worker takes which term,
\* a call that returns hands back the value, the gradient and the Hessian of
\* the single-worker run on the same registry and point, and raises an
\* exception exactly when the single-worker run raises one.
C9_SameAsSingleWorker ==
    (pc = "returned" /\ request # "") =>
        /\ SingleWorker(f, x, request, memory).defined
        /\ Outcome(SingleWorker(f, x, request, memory).out) = Outcome(out)

\* Two workers have each run a term of a call that returned a value, a
\* gradient that is not zero and a dense Hessian.
C9_Witness ==
    /\ pc = "returned" /\ request = "dense" /\ out.error = ""
    /\ Len(writes) = 2 /\ writes[1] # {} /\ writes[2] # {}
    /\ \E k \in 1..Len(out.gradient) : out.gradient[k] # 0
    /\ \E rc \in DOMAIN out.hessian : out.hessian[rc] # 0

\* The locations only worker t may write.
PrivateObjects ==
    {"thread_gradient_storage", "thread_gradient_scratch", "value", "evaluation_errors"}

NoSharedWrite ==
    /\ \A t \in 1..Len(writes) : \A loc \in writes[t] :
            loc.object \in PrivateObjects => loc.owner = t - 1
    /\ \A t \in 1..Len(writes), u \in 1..Len(writes) :
            t # u => writes[t] \cap writes[u] = {}
    /\ pc = "parallel" => out = NoOutput

ParallelStep ==
    pc = "parallel" =>
        /\ x' = x
        /\ f'.variables = f.variables
        /\ worker' # worker => pc' = "parallel"
        /\ pc' = "parallel" =>
            /\ out' = out
            /\ \A t \in 1..Len(writes) : \A loc \in writes'[t] \ writes[t] :
                   loc.object = "hessian" =>
                       worker'[t].stage = "put" /\ loc.owner = worker'[t].i

\* C10: in the parallel loop no location is written by two workers: worker t
\* writes only thread_gradient_storage[t], thread_gradient_scratch[t], its
\* private value, its error slot and the Hessian blocks of the term it is
\* evaluating; x and the variables' temp_space are not written, every write
\* is inside its vector, and the caller's gradient is written after the loop.
C10_NoSharedWrites == [](NoSharedWrite) /\ [][ParallelStep]_vars

\* Both workers have added a gradient to their accumulators, and one of them
\* has stored Hessian blocks, while the loop is still running.
C10_Witness ==
    /\ pc = "parallel"
    /\ Len(writes) = 2
    /\ \A t \in 1..2 : \E loc \in writes[t] : loc.object = "thread_gradient_storage"
    /\ \E loc \in writes[1] \cup writes[2] : loc.object = "hessian"

-----------------------------------------------------------------------------
(* Exceptions of the terms, under SpecEval.                                *)

\* The exceptions raised in the call in progress, in the order of time.
Raised == SelectSeq(log, LAMBDA e : e.error # "")

\* The iterations of the loop that have run.
Ran == { log[k].i : k \in 1..Len(log) }

ErrorRaisedAfterJoin ==
    (pc = "returned" /\ Raised # <<>>) =>
        /\ out.error # ""
        /\ out = [NoOutput EXCEPT !.error = out.error]
        /\ Ran = 0..(Len(f.terms) - 1)
        /\ todo = {}
        /\ \A t \in 1..Len(worker) : worker[t].stage = "idle"

\* A slot of evaluation_errors that holds an exception holds one until the
\* loop is over, and the call ends only when no iteration is left or running.
ErrorKept ==
    pc = "parallel" =>
        /\ \A t \in 1..Len(evaluation_errors) :
               evaluation_errors[t] # "" => evaluation_errors'[t] # ""
        /\ pc' = "returned" =>
               todo = {} /\ \A t \in 1..Len(worker) : worker[t].stage = "idle"

\* C11: once a term has thrown in the parallel loop of an evaluate call (of
\* the value alone, with a gradient, with a dense or a sparse Hessian), the
\* exception stays captured, the call ends by raising an exception and hands
\* back no value, and it does so after every iteration of the loop has run
\* and every worker is done.
C11_ErrorNotLost == [](ErrorRaisedAfterJoin) /\ [][ErrorKept]_vars

\* A call with a gradient has raised the exception of its first iteration
\* after the other worker ran the second iteration to the end.
C11_Witness ==
    /\ pc = "returned" /\ request = "gradient" /\ out.error # ""
    /\ Len(log) = 2
    /\ log[1].error # "" /\ log[2].error = ""
    /\ log[1].t # log[2].t

\* C12: when several terms throw in one call, the exception raised to the
\* caller is the one thrown first, whichever workers threw them.
C12_FirstRaisedWins ==
    (pc = "returned" /\ Raised # <<>>) => out.error = Raised[1].error

-----------------------------------------------------------------------------
(* The two Hessians, under SpecEval.                                       *)

\* The dense and the sparse assembly of the Hessian blocks the terms hold.
DenseOf(F) ==
    DenseHessian(F, ZeroMatrix(F.number_of_scalars, F.number_of_scalars), 0, 0)

SparseOf(F) ==
    setFromTriplets(F.number_of_scalars, F.number_of_scalars, HessianTriplets(F))

\* The coordinates some triplet has.
TripletCoordinates(triplets) ==
    { <<triplets[k].row, triplets[k].col>> : k \in 1..Len(triplets) }

\* C13: after a call that returned a Hessian, the sparse assembly of the
\* terms' blocks, with the triplets of equal (row, col) summed, has the
\* entries of the dense assembly of the same blocks, and the dense matrix is
\* zero where no triplet is; the caller holds that matrix.
C13_SparseSumsToDense ==
    (pc = "returned" /\ WithHessian(request) /\ out.error = "") =>
        LET dense == DenseOf(f)
            sparse == SparseOf(f)
            coordinates == TripletCoordinates(HessianTriplets(f))
        IN  /\ dense.defined /\ dense.error = "" /\ sparse.defined
            /\ sparse.matrix = dense.matrix
            /\ out.hessian = dense.matrix
            /\ \A rc \in DOMAIN dense.matrix :
                   rc \notin coordinates => dense.matrix[rc] = 0

\* A sparse call returned a Hessian in which the triplets of a variable bound
\* twice by one term were summed.
C13_Witness ==
    /\ pc = "returned" /\ request = "sparse" /\ out.error = ""
    /\ LET triplets == HessianTriplets(f)
       IN  \E k, l \in 1..Len(triplets) :
              /\ k # l
              /\ triplets[k].row = triplets[l].row
              /\ triplets[k].col = triplets[l].col
              /\ triplets[k].value # 0

-----------------------------------------------------------------------------
(* Local storage.                                                          *)

\* Local storage is the storage of the registry as it is now: accumulators
\* and scratch rows for every thread, of the sizes the variables need, and
\* for every term the temp_space of the variables it is bound to and, when
\* Hessians are enabled, blocks of the dimensions of its arguments.
StorageFits(F) ==
    /\ Len(F.thread_gradient_storage) = F.number_of_threads
    /\ Len(F.thread_gradient_scratch) = F.number_of_threads
    /\ \A t \in 1..F.number_of_threads :
          /\ Len(F.thread_gradient_storage[t]) = F.number_of_scalars + F.number_of_constants
          /\ \A k \in 1..Len(F.terms) :
                /\ Len(F.thread_gradient_scratch[t]) >= Len(F.terms[k].added_variables_indices)
                /\ \A var \in 1..Len(F.terms[k].added_variables_indices) :
                      Len(F.thread_gradient_scratch[t][var]) >=
                          F.variables[F.terms[k].added_variables_indices[var] + 1]
                              .user_dimension
    /\ \A k \in 1..Len(F.terms) :
          LET n == number_of_variables(F.terms[k].term)
          IN  /\ Len(F.terms[k].temp_variables) >= n
              /\ SubSeq(F.terms[k].temp_variables, 1, n) = F.terms[k].added_variables_indices
              /\ F.hessian_is_enabled =>
                    /\ Len(F.terms[k].hessian) = n
                    /\ \A var0, var1 \in 1..n :
                          /\ Len(F.terms[k].hessian[var0][var1])
                                = variable_dimension(F.terms[k].term, var0 - 1)
                          /\ \A i \in 1..Len(F.terms[k].hessian[var0][var1]) :
                                Len(F.terms[k].hessian[var0][var1][i])
                                    = variable_dimension(F.terms[k].term, var1 - 1)

-----------------------------------------------------------------------------
(* Properties of the calls, under SpecSerial.                              *)

\* The exceptions the two Hessian evaluations throw for a transform.
UnsupportedOperation ==
    {"Change of variables not supported for Hessians",
     "Change of variables not supported for sparse Hessian"}

\* Some term has an argument bound to a variable that carries a transform.
TransformedArgument(F) ==
    \E k \in 1..Len(F.terms) :
        \E var \in 1..Len(F.terms[k].added_variables_indices) :
            F.variables[F.terms[k].added_variables_indices[var] + 1]
                .change_of_variables # nullptr

\* C14: a dense or sparse Hessian evaluation in which no term throws fails
\* with the exception for transforms exactly when some variable bound as an
\* argument of a term carries a transform, free or constant, and returns a
\* value otherwise.
C14_TransformRejected ==
    (pc = "returned" /\ WithHessian(request)
        /\ out.error \notin {"unary term: domain error", "term: domain error"}) =>
        /\ TransformedArgument(f) => out.error \in UnsupportedOperation
        /\ ~TransformedArgument(f) => out.error = ""

\* C15: after every add_variable, add_term and set_constant that returned,
\* local storage is marked stale.
C15_MutationMarksStale ==
    (last.op \in {"add_variable", "add_term", "set_constant"} /\ last.error = "") =>
        ~f.local_storage_allocated

\* A variable was added, without an exception, to a Function that had been
\* evaluated, so that its local storage had been allocated.
C15_Witness ==
    /\ last = Call("add_variable", "")
    /\ Len(f.thread_gradient_storage) > 0
    /\ Len(f.terms) > 0 /\ Len(f.terms[1].temp_variables) > 0
    /\ ~f.local_storage_allocated

\* The loop of every evaluate call that could be made now starts with local
\* storage marked allocated and fit for the registry.
AllocatedBeforeLoop(F, mem) ==
    \A rq \in Requests, x0 \in Points(F.number_of_scalars) :
        LET begun == BeginEvaluate(F, x0, rq, mem)
        IN  (begun.defined /\ begun.error = "") =>
                begun.F.local_storage_allocated /\ StorageFits(begun.F)

\* C16: after any calls of add_variable, add_term, set_constant and of the
\* evaluate overloads, in any order, an evaluate call reaches its first term
\* with local storage marked allocated (spii_assert(local_storage_allocated)
\* holds) and fit for the registry as it is now, and the storage is so when
\* the call has returned. (Interval evaluation uses no local storage.)
C16_StorageAllocatedInLoop ==
    /\ pc = "idle" => AllocatedBeforeLoop(f, memory)
    /\ (pc = "returned" /\ request \in Requests) =>
           f.local_storage_allocated /\ StorageFits(f)

\* An evaluate call returned on a Function to which a term was added after an
\* earlier evaluate call had allocated its storage: the pointers of the first
\* term were pushed by two allocations.
C16_Witness ==
    /\ pc = "returned" /\ last = Call("evaluate", "")
    /\ Len(f.terms) = 2
    /\ Len(f.terms[1].temp_variables) = 2 * Len(f.terms[1].added_variables_indices)
    /\ Len(f.terms[2].temp_variables) = Len(f.terms[2].added_variables_indices)

\* C17: interval evaluation hands each term, for each argument, the position
\* global_index of the bound variable in the caller's vector, and the range
\* of the variable from that position on is inside that vector of one
\* interval per scalar, whatever the registry, constants included.
C17_IntervalReferencesInside ==
    request = "interval" =>
        /\ out.references = IntervalReferences(f)
        /\ Len(x) = f.number_of_scalars
        /\ \A k \in 1..Len(f.terms) : \A var \in 1..Len(out.references[k]) :
              out.references[k][var]
                  + f.variables[f.terms[k].added_variables_indices[var] + 1]
                        .solver_dimension
                  <= f.number_of_scalars

\* The variable bound to argument var of term k.
BoundVariable(F, k, var) ==
    F.variables[F.terms[k].added_variables_indices[var] + 1]

\* There are terms, and every variable is constant or has no transform.
ConstantOrUntransformed(F) ==
    /\ F.terms # <<>>
    /\ \A k \in 1..Len(F.variables) :
          F.variables[k].is_constant \/ F.variables[k].change_of_variables = nullptr

\* The argument a term is to see: the user's storage of a constant variable,
\* the variable's slice of the point otherwise.
ArgumentAt(F, k, var, point, mem) ==
    LET v == BoundVariable(F, k, var)
    IN  [i \in 1..v.user_dimension |->
            IF v.is_constant THEN mem[v.user_data + i - 1]
            ELSE point[v.global_index + i]]

\* C18: on a Function with terms whose variables are constant or without
\* transform, evaluate(x) returns the constant plus the sum of the values of
\* the terms, each on the user's storage of its constant variables and on
\* the slices x[global_index .. global_index + dimension) of its free ones.
C18_ValueIsSumOfTerms ==
    (request = "value" /\ pc \in {"returned", "undefined"} /\ out.error = ""
        /\ ConstantOrUntransformed(f)) =>
        /\ pc = "returned"
        /\ out.value = f.constant + SumSeq([k \in 1..Len(f.terms) |->
              TermValue(f.terms[k].term,
                  [var \in 1..Len(f.terms[k].added_variables_indices) |->
                      ArgumentAt(f, k, var, x, memory)])])

\* The sum, over the terms and their argument positions bound to the variable
\* at position v of the registry, of entry i of the term's gradient row.
GradientOf(F, v, i) ==
    SumSeq([k \in 1..Len(F.terms) |->
        SumSeq([var \in 1..Len(F.terms[k].added_variables_indices) |->
            IF F.terms[k].added_variables_indices[var] = v
            THEN TermGradient(F.terms[k].term, TermArguments(F, k - 1))[var][i + 1]
            ELSE 0])])

\* C19: after an evaluation with a gradient that returned, the gradient has
\* number_of_scalars entries, and for every free variable v without transform
\* entry global_index(v) + i is the sum of entry i of the gradient rows of
\* the arguments bound to v; constants add to no entry.
C19_GradientIsScattered ==
    (pc = "returned" /\ WithGradient(request) /\ out.error = "") =>
        /\ Len(out.gradient) = f.number_of_scalars
        /\ \A v \in 1..Len(f.variables) :
              (~f.variables[v].is_constant
                  /\ f.variables[v].change_of_variables = nullptr) =>
                  \A i \in 0..(f.variables[v].user_dimension - 1) :
                      out.gradient[f.variables[v].global_index + i + 1]
                          = GradientOf(f, v - 1, i)

-----------------------------------------------------------------------------
(* The scalar vector, under Spec.                                          *)

\* The positions in `variables` of the variables that are not constant.
FreeVariables(F) == { v \in 1..Len(F.variables) : ~F.variables[v].is_constant }

\* C20: after any add_variable, add_term and set_constant calls, the ranges
\* [global_index, global_index + solver_dimension) of the variables that are
\* not constant are pairwise disjoint and cover [0, get_number_of_scalars())
\* exactly, so that get_number_of_scalars() is the sum of their
\* solver_dimension, and 0 when every variable is constant.
C20_FreeRangesTile ==
    /\ \A v, w \in FreeVariables(f) :
          v # w => IndexRange(f.variables[v]) \cap IndexRange(f.variables[w]) = {}
    /\ UNION { IndexRange(f.variables[v]) : v \in FreeVariables(f) }
          = 0..(get_number_of_scalars(f) - 1)
    /\ get_number_of_scalars(f)
          = SumSeq([v \in 1..Len(f.variables) |->
                       IF v \in FreeVariables(f) THEN f.variables[v].solver_dimension
                       ELSE 0])
    /\ FreeVariables(f) = {} => get_number_of_scalars(f) = 0

\* set_constant returned after marking the first of two variables constant:
\* the second, which is free, has moved to the start of the scalar vector.
C20_Witness ==
    /\ last = Call("set_constant", "")
    /\ Len(f.variables) = 2
    /\ f.variables[1].is_constant /\ f.variables[1].solver_dimension > 0
    /\ FreeVariables(f) = {2}
    /\ f.variables[2].global_index = 0
    /\ get_number_of_scalars(f) = f.variables[2].solver_dimension
    /\ get_number_of_scalars(f) > 0

-----------------------------------------------------------------------------
(* Rejected calls, under Spec.                                             *)

\* What the accessors of the registry report.
Counts(F) ==
    [terms |-> get_number_of_terms(F),
     variables |-> get_number_of_variables(F),
     scalars |-> get_number_of_scalars(F)]

ArityMismatchThrows ==
    \A term \in Terms, arguments \in ArgumentLists :
        Len(arguments) # number_of_variables(term) =>
            /\ add_term(f, term, arguments).error = "incorrect number of arguments"
            /\ Counts(add_term(f, term, arguments).F) = Counts(f)

ArityMismatchStep ==
    last'.error = "incorrect number of arguments" =>
        last'.op = "add_term" /\ Counts(f') = Counts(f)

\* C21: add_term with a list of addresses whose length is not the term's
\* number_of_variables throws, and the number of terms, the number of
\* variables and the scalar count are what they were before the call.
C21_ArityMismatchRejected == [](ArityMismatchThrows) /\ [][ArityMismatchStep]_vars

\* add_term threw for the number of its arguments on a Function that has a
\* term and variables.
C21_Witness ==
    /\ last = Call("add_term", "incorrect number of arguments")
    /\ get_number_of_terms(f) > 0
    /\ get_number_of_scalars(f) > 0

OtherDimensionThrows ==
    \A variable \in UserAddresses, dimension \in Dimensions,
       change_of_variables \in ChangesOfVariables \cup {nullptr} :
        (MapFind(f, variable)
            /\ f.variables[f.variables_map[variable] + 1].user_dimension # dimension) =>
            add_variable_internal(f, variable, dimension, change_of_variables).error
                = "dimension mismatch with previously added variable"

UserDimensionKept ==
    \A v \in Registered(f) :
        /\ v <= Len(f'.variables)
        /\ f'.variables[v].user_dimension = f.variables[v].user_dimension

\* C22: add_variable on an address that is registered, with a dimension other
\* than the one it has, throws; and no call of add_variable, add_term or
\* set_constant changes the user_dimension of a registered variable.
C22_DimensionFixed == [](OtherDimensionThrows) /\ [][UserDimensionKept]_vars

\* add_variable threw for the dimension of a registered variable.
C22_Witness ==
    /\ last = Call("add_variable", "dimension mismatch with previously added variable")
    /\ Registered(f) # {}

\* A variable without its transform.
Layout(var) ==
    [global_index |-> var.global_index,
     user_dimension |-> var.user_dimension,
     solver_dimension |-> var.solver_dimension,
     is_constant |-> var.is_constant]

\* G differs from F in nothing but the transform of the variable at `variable`.
OnlyTransformChanged(F, G, variable) ==
    /\ get_number_of_variables(G) = get_number_of_variables(F)
    /\ get_number_of_scalars(G) = get_number_of_scalars(F)
    /\ G.number_of_constants = F.number_of_constants
    /\ G.variables_map = F.variables_map
    /\ \A v \in 1..Len(F.variables) :
        /\ Layout(G.variables[v]) = Layout(F.variables[v])
        /\ v # F.variables_map[variable] + 1 =>
               G.variables[v].change_of_variables = F.variables[v].change_of_variables

ReAddKeepsLayout ==
    \A variable \in UserAddresses, change_of_variables \in ChangesOfVariables \cup {nullptr} :
        MapFind(f, variable) =>
            LET dimension == f.variables[f.variables_map[variable] + 1].user_dimension
            IN  dimension \in Dimensions =>
                    OnlyTransformChanged(f,
                        add_variable_internal(f, variable, dimension, change_of_variables).F,
                        variable)

\* A call of add_variable that appended no variable found its address, and one
\* that did not throw for the dimension was given the dimension it has.
ReAddStep ==
    (/\ last'.op = "add_variable"
     /\ last'.error # "dimension mismatch with previously added variable"
     /\ Len(f'.variables) = Len(f.variables)) =>
        \E variable \in DOMAIN f.variables_map : OnlyTransformChanged(f, f', variable)

\* C23: add_variable on a registered address with the dimension it was
\* registered with leaves the number of variables, the scalar count, the
\* constant-scalar count and every variable's global index, dimensions and
\* constancy flag as they were; only the transform of that variable may differ.
C23_ReAddKeepsLayout == [](ReAddKeepsLayout) /\ [][ReAddStep]_vars

\* The one variable was registered with a transform to one scalar and re-added
\* without a transform.
C23_Witness ==
    /\ last = Call("add_variable", "")
    /\ Len(f.variables) = 1
    /\ f.variables[1].user_dimension = 2
    /\ f.variables[1].solver_dimension = 1
    /\ f.variables[1].change_of_variables = nullptr

-----------------------------------------------------------------------------
(* Rejected calls, under SpecSerial.                                       *)

\* The constancy flag and the global index of every variable, the scalar count
\* and whether the local storage stands.
Indexing(F) ==
    [variables |-> [v \in 1..Len(F.variables) |->
                       [is_constant |-> F.variables[v].is_constant,
                        global_index |-> F.variables[v].global_index]],
     number_of_scalars |-> get_number_of_scalars(F),
     local_storage_allocated |-> F.local_storage_allocated,
     thread_gradient_scratch |-> F.thread_gradient_scratch,
     thread_gradient_storage |-> F.thread_gradient_storage]

UnknownAddressThrows ==
    \A variable \in UserAddresses \ DOMAIN f.variables_map :
        /\ \A is_constant \in BOOLEAN :
            /\ set_constant(f, variable, is_constant).error = "variable not found"
            /\ Indexing(set_constant(f, variable, is_constant).F) = Indexing(f)
        /\ get_variable_global_index(f, variable).error = "variable not found"
        /\ Indexing(get_variable_global_index(f, variable).F) = Indexing(f)

NotFoundStep ==
    last'.error = "variable not found" =>
        /\ last'.op \in {"set_constant", "get_variable_global_index"}
        /\ Indexing(f') = Indexing(f)

\* C24: set_constant and get_variable_global_index on an address that is not
\* in the registry throw "variable not found" and leave the constancy flag and
\* the global index of every variable, the scalar count and the local storage
\* as they were.
C24_UnknownAddressRejected == [](UnknownAddressThrows) /\ [][NotFoundStep]_vars

\* set_constant threw on a function whose local storage stands.
C24_Witness ==
    /\ last = Call("set_constant", "variable not found")
    /\ f.local_storage_allocated
    /\ Len(f.variables) > 0

-----------------------------------------------------------------------------
(* The Hessian switched off, under SpecHessian.                            *)

HessianDisabled == "Hessian computation is not enabled"

DisabledHessianThrows ==
    (pc = "idle" /\ ~f.hessian_is_enabled) =>
        \A rq \in {"dense", "sparse"}, x0 \in Points(f.number_of_scalars) :
            LET r == ThreadZeroRuns(f, x0, rq, memory)
            IN  /\ r.defined
                /\ r.out = [NoOutput EXCEPT !.error = HessianDisabled]
                /\ r.F = f

DisabledHessianStep ==
    (last'.error = HessianDisabled /\ calls' = calls + 1) =>
        /\ ~f.hessian_is_enabled
        /\ request' \in {"dense", "sparse"}
        /\ f' = f
        /\ out' = [NoOutput EXCEPT !.error = HessianDisabled]

\* C25: a call of evaluate for a dense or a sparse Hessian on a function whose
\* hessian_is_enabled is false throws at once: no term is evaluated (a term
\* that would throw at the point is not reached), the local storage is
\* neither allocated nor touched, and nothing is written to *gradient and
\* *hessian.
C25_DisabledHessianRejected == [](DisabledHessianThrows) /\ [][DisabledHessianStep]_vars

\* The call threw on a function with a term whose storage had never been
\* allocated.
C25_Witness ==
    /\ last = Call("evaluate", HessianDisabled)
    /\ Len(f.terms) > 0
    /\ ~f.local_storage_allocated

-----------------------------------------------------------------------------
(* The sparsity pattern, under SpecSerial.                                 *)

\* The coordinates of the triplets, in the order they were pushed.
CoordinatesOf(triplets) ==
    [k \in 1..Len(triplets) |-> <<triplets[k].row, triplets[k].col>>]

\* The number of pairs of scalars of the pairs of arguments of terms[k] that
\* are not constant.
ScalarPairs(F, k) ==
    LET term == F.terms[k].term
        free == { var \in 0..(number_of_variables(term) - 1) :
                      ~IsConstantArgument(F, F.terms[k], var) }
        pairs == free \X free
    IN  SumSeq([var0 \in 1..number_of_variables(term) |->
            SumSeq([var1 \in 1..number_of_variables(term) |->
                IF <<var0 - 1, var1 - 1>> \in pairs
                THEN variable_dimension(term, var0 - 1) * variable_dimension(term, var1 - 1)
                ELSE 0])])

SamePattern ==
    LET created == create_sparse_hessian(f)
        hessian_indices == created.hessian_indices
    IN  /\ created.error = ""
        /\ \A k \in 1..Len(hessian_indices) : hessian_indices[k].value = 1
        /\ Len(hessian_indices) = SumSeq([k \in 1..Len(f.terms) |-> ScalarPairs(f, k)])
        /\ created.F = [f EXCEPT !.number_of_hessian_elements = Len(hessian_indices)]
        /\ HessianAllocated(f) =>
               CoordinatesOf(hessian_indices) = CoordinatesOf(HessianTriplets(f))

CreateStep ==
    (last'.op = "create_sparse_hessian" /\ calls' = calls + 1) =>
        /\ f'.number_of_hessian_elements = Len(UnitTriplets(f))
        /\ [f' EXCEPT !.number_of_hessian_elements = 0]
               = [f EXCEPT !.number_of_hessian_elements = 0]

\* C26: create_sparse_hessian pushes its triplets at the coordinates at which
\* the sparse evaluate pushes the coefficients of the terms' blocks for the
\* same registry, in the same order (so the multisets of (row, col) are
\* equal): one for every pair of scalars of every pair of arguments that are
\* not constant, of every term, each of value 1.0. It evaluates no term (but
\* for number_of_hessian_elements the function is as it was) and records the
\* number of triplets in number_of_hessian_elements.
C26_SameTripletWalk == [](SamePattern) /\ [][CreateStep]_vars

\* create_sparse_hessian returned on a function whose blocks a sparse call
\* had filled, with a term bound to a constant and to a free variable.
C26_Witness ==
    /\ last = Call("create_sparse_hessian", "") /\ pc = "idle"
    /\ f.number_of_hessian_elements > 0
    /\ HessianAllocated(f)
    /\ \E k \in 1..Len(f.terms) :
          \E var0, var1 \in 0..(number_of_variables(f.terms[k].term) - 1) :
              /\ IsConstantArgument(f, f.terms[k], var0)
              /\ ~IsConstantArgument(f, f.terms[k], var1)

-----------------------------------------------------------------------------
(* Streams, under SpecArchive.                                             *)

HoldsTransform(F) ==
    \E k \in 1..Len(F.variables) : F.variables[k].change_of_variables # nullptr

Refused(tokens) ==
    \/ tokens[1] # "spii::function"
    \/ tokens[3] # TypeFormat
    \/ RecordedSum(tokens) # tokens[6]

\* C28: read_from_stream on a stream whose first token is not the magic
\* header, whose type format is not that of the build, or whose variable
\* dimensions do not sum to the scalar count it records, throws, and the
\* Function it was reading into has no term.
C28_BadStreamRejected ==
    (pc = "loaded" /\ Refused(stream.tokens)) =>
        /\ g.error # ""
        /\ get_number_of_terms(g.F) = 0
        /\ g.positions = <<>>

\* A stream of a function with a term was refused for its first token.
C28_Witness ==
    /\ pc = "loaded"
    /\ stream.tokens[1] # "spii::function"
    /\ get_number_of_terms(f) > 0
    /\ g.error = "Not a function stream"

\* No variable of F holds a transform or has held one: every variable has the
\* solver dimension it was registered with.
WithoutTransforms(F) ==
    \A k \in 1..Len(F.variables) :
        /\ F.variables[k].change_of_variables = nullptr
        /\ F.variables[k].solver_dimension = F.variables[k].user_dimension

\* C29: the variable records write_to_stream writes for a function without
\* transforms give the Function that read_from_stream fills the layout of the
\* original: as many variables, and for every variable of the original one
\* of the same global index and dimension, constant variables included.
\* (Stated for functions without terms, whose streams hold nothing but the
\* header, the variable records and the scalars.)
C29_LayoutRestored ==
    (/\ pc = "loaded" /\ stream = write_to_stream(f, memory)
     /\ WithoutTransforms(f) /\ get_number_of_terms(f) = 0) =>
        /\ get_number_of_variables(g.F) = get_number_of_variables(f)
        /\ \A k \in 1..Len(f.variables) : \E l \in 1..Len(g.F.variables) :
              /\ g.F.variables[l].global_index = f.variables[k].global_index
              /\ g.F.variables[l].user_dimension = f.variables[k].user_dimension

-----------------------------------------------------------------------------
(* The bindings of the terms, under Spec.                                  *)

\* terms[k] is bound to as many variables as its term takes, each of them in
\* the vector of variables and of the dimension the term declares for it.
WellBound(F, k) ==
    LET term == F.terms[k].term
        indices == F.terms[k].added_variables_indices
    IN  /\ Len(indices) = number_of_variables(term)
        /\ \A var \in 0..(number_of_variables(term) - 1) :
              /\ indices[var + 1] \in 0..(Len(F.variables) - 1)
              /\ F.variables[indices[var + 1] + 1].user_dimension
                     = variable_dimension(term, var)

BindingsWellFormed == \A k \in 1..Len(f.terms) : WellBound(f, k)

\* What add_term does with its arguments when it returns.
BindsOrRegisters ==
    \A term \in Terms, arguments \in ArgumentLists :
        LET r == add_term(f, term, arguments)
            G == r.F
            indices == G.terms[Len(G.terms)].added_variables_indices
        IN  r.error = "" =>
                /\ get_number_of_terms(G) = get_number_of_terms(f) + 1
                /\ WellBound(G, Len(G.terms))
                /\ \A var \in 1..Len(arguments) :
                      /\ MapFind(G, arguments[var])
                      /\ indices[var] = G.variables_map[arguments[var]]
                      /\ G.variables[indices[var] + 1].user_data = arguments[var]
                      /\ MapFind(f, arguments[var]) =>
                             G.variables_map[arguments[var]] = f.variables_map[arguments[var]]
                /\ SubSeq(G.variables, 1, Len(f.variables)) = f.variables
                /\ (\A var \in 1..Len(arguments) : MapFind(f, arguments[var])) =>
                       /\ get_number_of_variables(G) = get_number_of_variables(f)
                       /\ get_number_of_scalars(G) = get_number_of_scalars(f)
                /\ \A v \in (Len(f.variables) + 1)..Len(G.variables) :
                      \E var \in 1..Len(arguments) :
                          /\ ~MapFind(f, arguments[var])
                          /\ indices[var] = v - 1
                          /\ G.variables[v].user_dimension = variable_dimension(term, var - 1)
                          /\ G.variables[v].change_of_variables = nullptr

AddTermStep ==
    (last'.op = "add_term" /\ last'.error = "") =>
        \E term \in Terms, arguments \in ArgumentLists :
            f' = add_term(f, term, arguments).F /\ add_term(f, term, arguments).error = ""

\* C30: every term is bound to as many variables as its term takes, every
\* bound index is that of a variable, and the k-th bound variable has the
\* user_dimension the term declares for its k-th argument. An add_term that
\* returns binds a registered address of that dimension to the variable it
\* has, leaving the numbers of variables and of scalars when every address
\* was registered, and registers an address not seen before with the
\* dimension the term declares for it.
C30_BindingsWellFormed ==
    [](BindingsWellFormed /\ BindsOrRegisters) /\ [][AddTermStep]_vars

\* The second term was bound to the variable the first had registered and to
\* one it registered itself.
C30_Witness ==
    /\ last = Call("add_term", "") /\ calls = 2
    /\ Len(f.terms) = 2 /\ Len(f.variables) = 2
    /\ f.terms[1].added_variables_indices = <<0>>
    /\ f.terms[2].added_variables_indices = <<0, 1>>
    /\ f.variables[1].user_dimension # f.variables[2].user_dimension

-----------------------------------------------------------------------------
(* The solver's results, under SpecSolver.                                 *)

Converged == {"GRADIENT_TOLERANCE", "FUNCTION_TOLERANCE", "ARGUMENT_TOLERANCE"}

NotConverged ==
    {"NO_CONVERGENCE", "FUNCTION_NAN", "FUNCTION_INFINITY", "USER_ABORT",
     "INTERNAL_ERROR", "NA"}

\* C31: exit_success returns true when exit_condition is GRADIENT_TOLERANCE,
\* FUNCTION_TOLERANCE or ARGUMENT_TOLERANCE and false when it is
\* NO_CONVERGENCE, FUNCTION_NAN, FUNCTION_INFINITY, USER_ABORT, INTERNAL_ERROR
\* or NA, and exit_condition is always one of these nine.
C31_ExitSuccessIsConvergence ==
    /\ results.exit_condition \in Converged \cup NotConverged
    /\ results.exit_condition \in Converged => exit_success(results)
    /\ results.exit_condition \in NotConverged => ~exit_success(results)
    /\ (results.asked /\ last.op = "exit_success") =>
           (results.returned <=> results.exit_condition \in Converged)

\* The caller was told of success after the solver had ended on the tolerance
\* of the function value, for a function with a term.
C31_Witness ==
    /\ last = Call("exit_success", "")
    /\ results.exit_condition = "FUNCTION_TOLERANCE"
    /\ results.returned
    /\ Len(f.terms) > 0

-----------------------------------------------------------------------------
(* Local storage after several allocations, under SpecSerial.              *)

\* C32: whenever local storage is marked allocated, however many times it
\* was invalidated and allocated again, temp_variables of every term has
\* exactly as many entries as the term has arguments, entry k pointing at the
\* temp_space of the k-th bound variable, as after a single allocation.
C32_PointersAsAfterOneAllocation ==
    f.local_storage_allocated =>
        \A k \in 1..Len(f.terms) :
            /\ Len(f.terms[k].temp_variables) = number_of_variables(f.terms[k].term)
            /\ f.terms[k].temp_variables = f.terms[k].added_variables_indices

\* One accumulator and one scratch set per thread, of the sizes
\* allocate_local_storage gives them.
AccumulatorsFit(F) ==
    LET max_variable_dimension ==
            Max({1} \cup { F.variables[k].user_dimension : k \in 1..Len(F.variables) })
        max_arity ==
            Max({1} \cup { Len(F.terms[k].added_variables_indices) : k \in 1..Len(F.terms) })
    IN  /\ Len(F.thread_gradient_storage) = F.number_of_threads
        /\ Len(F.thread_gradient_scratch) = F.number_of_threads
        /\ \A t \in 1..F.number_of_threads :
              /\ Len(F.thread_gradient_storage[t])
                     = F.number_of_scalars + F.number_of_constants
              /\ Len(F.thread_gradient_scratch[t]) >= max_arity
              /\ \A var \in 1..Len(F.thread_gradient_scratch[t]) :
                    Len(F.thread_gradient_scratch[t][var]) >= max_variable_dimension

\* The coefficients of its accumulator a worker adds to for the arguments of
\* the terms lie inside the accumulator.
AccumulatorWritesInside(F) ==
    \A k \in 1..Len(F.terms) : \A var \in 1..Len(F.terms[k].added_variables_indices) :
        LET v == F.variables[F.terms[k].added_variables_indices[var] + 1]
            written == IF v.change_of_variables = nullptr THEN v.user_dimension
                       ELSE IF v.global_index < F.number_of_scalars
                       THEN t_dimension(v.change_of_variables) ELSE 0
        IN  ~v.is_constant =>
                v.global_index + written <= F.number_of_scalars + F.number_of_constants

\* C33: whenever local storage is marked allocated there is one accumulator
\* and one scratch set per thread, every accumulator has number_of_scalars +
\* number_of_constants coefficients and every scratch set at least max-arity
\* rows of at least the largest variable dimension, so that every coefficient
\* a worker adds to in its accumulator during an evaluation is inside it.
C33_AccumulatorWritesInBounds ==
    f.local_storage_allocated => AccumulatorsFit(f) /\ AccumulatorWritesInside(f)

-----------------------------------------------------------------------------
(* The coordinates of the Hessians, under SpecSerial.                      *)

\* Every triplet has its row and its column in [0, number_of_scalars).
TripletsInside(F, triplets) ==
    \A k \in 1..Len(triplets) :
        /\ triplets[k].row \in 0..(F.number_of_scalars - 1)
        /\ triplets[k].col \in 0..(F.number_of_scalars - 1)

\* C34: the triplets create_sparse_hessian emits, and the coordinates the
\* dense assembly and the sparse evaluate reach (those of the same walk over
\* the blocks of the arguments that are not constant), have row and column
\* in [0, number_of_scalars), whatever the registry: constant variables,
\* variables registered after a set_constant, transforms with x_dimension
\* other than t_dimension.
C34_HessianCoordinatesInside ==
    /\ last.op = "create_sparse_hessian" => TripletsInside(f, UnitTriplets(f))
    /\ (last.op = "evaluate" /\ WithHessian(request) /\ out.error = ""
            /\ HessianAllocated(f)) =>
           TripletsInside(f, HessianTriplets(f))

-----------------------------------------------------------------------------
(* Copy assignment, under SpecCopy.                                        *)

\* The addresses terms[k] of F is bound to, argument by argument.
BoundAddresses(F, k) ==
    [var \in 1..Len(F.terms[k].added_variables_indices) |->
        F.variables[F.terms[k].added_variables_indices[var] + 1].user_data]

\* C35: g = f for any function f a caller can build, constant variables
\* included, completes with every spii_assert holding, and g has the number
\* of variables, the number of scalars, the constant and the number of terms
\* of f, each term bound to the addresses its term of f is bound to, in the
\* order of the arguments.
C35_CopyKeepsFunction ==
    pc = "copied" =>
        /\ g.error = ""
        /\ get_number_of_variables(g.F) = get_number_of_variables(f)
        /\ get_number_of_scalars(g.F) = get_number_of_scalars(f)
        /\ g.F.constant = f.constant
        /\ get_number_of_terms(g.F) = get_number_of_terms(f)
        /\ \A k \in 1..Len(f.terms) : BoundAddresses(g.F, k) = BoundAddresses(f, k)

-----------------------------------------------------------------------------
(* The copies between user storage and the global vector, under SpecUser.  *)

\* The user storage of a variable.
UserStorage(var, mem) == [k \in 1..var.user_dimension |-> mem[var.user_data + k - 1]]

\* x is long enough for var and its slice at the global index of var is the
\* user storage of var.
SliceIsStorage(var, x0, mem) ==
    /\ var.global_index + var.user_dimension <= Len(x0)
    /\ Slice(x0, var.global_index, var.user_dimension) = UserStorage(var, mem)

\* No variable of F holds a transform.
HoldsNoTransform(F) ==
    \A v \in 1..Len(F.variables) : F.variables[v].change_of_variables = nullptr

\* C36: for a function without transforms, copy_user_to_global produces a
\* vector of number_of_scalars coordinates whose slice at the global index of
\* each free variable is the user storage of that variable, and
\* copy_global_to_user of that vector leaves all user storage as it was;
\* copy_global_to_user of any vector never writes the user storage of a
\* constant variable.
C36_CopiesRoundTrip ==
    [][/\ (HoldsNoTransform(f) /\ pc = "idle" /\ last'.op = "copy_user_to_global"
              /\ pc' # "idle") =>
            /\ pc' = "gathered"
            /\ Len(x') = get_number_of_scalars(f)
            /\ \A v \in 1..Len(f.variables) :
                   ~f.variables[v].is_constant =>
                       SliceIsStorage(f.variables[v], x', memory)
       /\ (HoldsNoTransform(f) /\ pc = "gathered" /\ x' = x /\ pc' # "gathered") =>
            /\ pc' = "scattered"
            /\ memory' = memory
       /\ pc' = "scattered" =>
            \A v \in 1..Len(f.variables) :
                f.variables[v].is_constant =>
                    UserStorage(f.variables[v], memory') = UserStorage(f.variables[v], memory)
      ]_vars

====
